---- MODULE Spec2Model ----
(***************************************************************************)
(* State-machine model of the NWSL match-report extraction scripts.  Each  *)
(* script of the repository is an independent batch program that reads     *)
(* HTML tables and writes rows into a PostgreSQL database.  A run of the   *)
(* model executes exactly one script (variable script); the database is a  *)
(* record of tables (variable db), a table is a bag of rows.               *)
(***************************************************************************)
EXTENDS Integers, Sequences, FiniteSets, Bags, TLC

VARIABLES
    script,     \* the batch script this run executes
    alive,      \* FALSE once the script has ended, by an exception or at its end
    db,         \* the database as the script's connection sees it: a record of tables
    committed,  \* the database as of the connection's last commit
    cache,      \* the in-memory lookup cache of the script
    batch,      \* the records buffered for the next bulk insert
    prev_db,    \* the database as it was before the last recorded operation
    prev_batch, \* the buffer as it was before the last recorded operation
    op,         \* the last operation: its name and, when recorded, its input and result
    repeat,     \* TRUE when the last operation re-ran the recorded one on the same input
    workers     \* the transactions of the processes that run a writer side by side

vars == <<script, alive, db, committed, cache, batch, prev_db, prev_batch, op, repeat,
          workers>>

(***************************************************************************)
(* Bounds of the model.                                                    *)
(***************************************************************************)
MaxPlayers == 2      \* players a document can reference

(***************************************************************************)
(* Values.  Python None / SQL NULL is the integer NULL; a table cell that  *)
(* the document does not have at all is ABSENT.  A table is a bag of rows  *)
(* (SQL tables are unordered and, without a unique index, may hold the     *)
(* same row twice).                                                        *)
(***************************************************************************)
NULL == 0 - 1
ABSENT == 0 - 2

PlayerIds == 1..MaxPlayers
\* match 1 is stored in the match table, match 2 is a document without a match row
MatchIds == {1, 2}
StoredMatches == {1}

\* the two teams of a match: home, away
Teams == {1, 2}
\* the id the database gives the match_player row of (match, player)
MpId(m, p) == m * 10 + p

\* the documents of a script: a table lists each player at most once, in order
TableRows(Rows) ==
    {s \in UNION {[1..k -> Rows] : k \in 1..MaxPlayers} :
        \A i, j \in DOMAIN s : i < j => s[i].player < s[j].player}

\* the distinct rows of a table, and how many rows of the table are in the set S
Rows(tbl) == BagToSet(tbl)
Count(tbl, S) == BagCardinality([r \in S \cap BagToSet(tbl) |-> tbl[r]])
\* INSERT INTO tbl VALUES (row)
Insert(tbl, row) == tbl (+) SetToBag({row})
\* UPDATE tbl SET ...: new maps each row the WHERE clause selects to the updated row
Update(tbl, new) ==
    LET kept == BagToSet(tbl) \ DOMAIN new
    IN  [t \in kept \cup {new[r] : r \in DOMAIN new} |->
            (IF t \in kept THEN tbl[t] ELSE 0)
              + BagCardinality([r \in {q \in DOMAIN new : new[q] = t} |-> tbl[r]])]
\* SET f = rec.f for the fields f of rec that are in cols and not None
SetNonNull(r, rec, cols) ==
    [f \in DOMAIN r |-> IF f \in cols /\ rec[f] # NULL THEN rec[f] ELSE r[f]]
\* SET f = rec.f for every field f of cols
SetAll(r, rec, cols) ==
    [f \in DOMAIN r |-> IF f \in cols THEN rec[f] ELSE r[f]]

EmptyDb ==
    [match |-> StoredMatches,
     match_player |-> {},
     match_player_defensive_actions |-> EmptyBag,
     match_player_possession |-> EmptyBag,
     match_goalkeeper_performance |-> EmptyBag,
     match_player_pass_types |-> EmptyBag,
     match_player_misc |-> EmptyBag,
     misc_unique |-> TRUE,
     player |-> {},
     match_team_performance |-> EmptyBag,
     match_player_passing |-> EmptyBag,
     match_lineup |-> EmptyBag,
     match_goalkeeper_summary |-> EmptyBag,
     match_shot |-> EmptyBag]

\* the match_player rows a run can find stored for match 1: those of the
\* players 1..j (which players are stored is immaterial, a document can list
\* any of them)
InitMatchPlayers ==
    {{[id |-> MpId(1, p), match_id |-> 1, player_id |-> p, minutes_played |-> 90] :
        p \in 1..j} : j \in 0..MaxPlayers}

\* SELECT id FROM match_player WHERE match_id = .. AND player_id = ..
MatchPlayerId(d, match_id, player) ==
    IF \E r \in d.match_player : r.match_id = match_id /\ r.player_id = player
    THEN (CHOOSE r \in d.match_player : r.match_id = match_id /\ r.player_id = player).id
    ELSE NULL

(***************************************************************************)
(* Recording.  Every operation happens, but the model keeps the input and  *)
(* the result of an operation (and the database before it) only when rec   *)
(* is chosen, and then lets the same input run once more, so that a state  *)
(* can compare two consecutive runs on one input.                          *)
(***************************************************************************)
NoCache == [matches |-> {}, match_players |-> {}]
NoOp == [name |-> "start", arg |-> <<>>, ret |-> <<>>]
\* a script that runs as one process
NoWorkers == [unique |-> FALSE, of |-> <<>>]
\* the last operation was recorded
Recorded == op.arg # <<>>
Inputs(name, All) ==
    IF op.arg = <<>> THEN All ELSE IF op.name = name THEN {op.arg} ELSE {}
\* a transaction that is never committed leaves the stored database as it was
CommitNever(d, stored) == stored
\* conn.commit(): what the connection sees becomes the stored database
Commit(d, stored) == d
\* conn.rollback(), or closing the connection: the stored table is what is left
Rollback(d, table) == [d EXCEPT ![table] = committed[table]]

\* the operation leaves database d, all of it committed, and buffer b
Observe(name, arg, ret, d, b, rec) ==
    /\ db' = d
    /\ committed' = Commit(db', committed)
    /\ batch' = b
    /\ prev_db' = IF rec THEN db ELSE db'
    /\ prev_batch' = IF rec THEN batch ELSE batch'
    /\ op' = IF rec THEN [name |-> name, arg |-> arg, ret |-> ret]
             ELSE [name |-> name, arg |-> <<>>, ret |-> <<>>]
    /\ repeat' = (rec /\ op.name = name /\ op.arg = arg)
\* ok is FALSE when the operation ends the run with an uncaught exception
Run(name, arg, ret, d, rec, ok) ==
    /\ alive
    /\ alive' = ok
    /\ Observe(name, arg, ret, d, batch, rec)
    /\ UNCHANGED <<script, cache, workers>>
Step(name, arg, ret, d, rec) == Run(name, arg, ret, d, rec, TRUE)

InitRun(s, d) ==
    /\ script = s
    /\ alive = TRUE
    /\ db = d
    /\ committed = d
    /\ cache = NoCache
    /\ batch = <<>>
    /\ prev_db = d
    /\ prev_batch = <<>>
    /\ op = NoOp
    /\ repeat = FALSE
    /\ workers = NoWorkers

(***************************************************************************)
(* extract_defensive_actions.py                                            *)
(***************************************************************************)
\* a count cell: int(value) if the text is a number, 0 when empty, invalid or missing
DefCount(cell) == IF cell \in {ABSENT, NULL} THEN 0 ELSE cell
\* the percentage cell: float(value) with the % sign removed, None when empty or missing
DefPct(cell) == IF cell \in {ABSENT, NULL} THEN NULL ELSE cell

\* one table row -> player_data dict
extract_defensive_row(row) ==
    [player_fbref_id |-> row.player,
     tackles |-> DefCount(row.tackles),
     challenges_tkl_pct |-> DefPct(row.challenge_tackles_pct)]

DefRows == [player : PlayerIds, tackles : {ABSENT, 1},
            challenge_tackles_pct : {ABSENT, 1}]
DefDocs == TableRows(DefRows)
DefCols == {"tackles", "challenges_tkl_pct"}

\* the column values both statements of update_defensive_actions bind
DefStoredRow(mp, player) ==
    [match_player_id |-> mp, tackles |-> player.tackles,
     challenges_tkl_pct |-> player.challenges_tkl_pct]

DefAlwaysInsert(tbl, mp, player) == Insert(tbl, DefStoredRow(mp, player))
\* check for an existing record, then UPDATE every column or INSERT
DefWrite(tbl, mp, player) ==
    LET existing == {r \in Rows(tbl) : r.match_player_id = mp}
    IN  IF existing # {}
        THEN Update(tbl, [r \in existing |-> SetAll(r, player, DefCols)])
        ELSE Insert(tbl, DefStoredRow(mp, player))

\* the loop of update_defensive_actions over player_data[i..]
RECURSIVE DefLoop(_, _, _, _, _)
DefLoop(d, match_id, player_data, i, acc) ==
    IF i > Len(player_data) THEN [db |-> d, ret |-> acc]
    ELSE LET player == player_data[i]
             mp == MatchPlayerId(d, match_id, player.player_fbref_id)
         IN  IF mp = NULL
             THEN DefLoop(d, match_id, player_data, i + 1,
                          [acc EXCEPT !.failed = @ + 1,
                                      !.errors = Append(@, player.player_fbref_id)])
             ELSE DefLoop([d EXCEPT !.match_player_defensive_actions =
                                        DefWrite(@, mp, player)],
                          match_id, player_data, i + 1,
                          [acc EXCEPT !.successful = @ + 1])

update_defensive_actions(d, match_id, player_data) ==
    DefLoop(d, match_id, player_data, 1,
            [successful |-> 0, failed |-> 0, errors |-> <<>>])

\* process_single_file: extract the rows of one document, then write them
DefProcessSingleFile ==
    \E arg \in Inputs("update_defensive_actions", MatchIds \X DefDocs), rec \in BOOLEAN :
        LET match_id == arg[1]
            player_data == [i \in DOMAIN arg[2] |-> extract_defensive_row(arg[2][i])]
            r == update_defensive_actions(db, match_id, player_data)
        IN  /\ script = "defensive_actions"
            /\ Step("update_defensive_actions", arg, r.ret, r.db, rec)

InitDefense ==
    \E mps \in InitMatchPlayers :
        InitRun("defensive_actions", [EmptyDb EXCEPT !.match_player = mps])

NextDefense == DefProcessSingleFile

SpecDefense == InitDefense /\ [][NextDefense]_vars

(***************************************************************************)
(* extract_fbref_possession_full.py                                        *)
(***************************************************************************)
\* a stat cell: the number, None when the cell is empty, missing or not a number
PossValue(cell) == IF cell \in {ABSENT, NULL} THEN NULL ELSE cell

PossRows == [player : PlayerIds, touches : {ABSENT, 1, 2}]
PossDocs == TableRows(PossRows)
PossCols == {"touches"}

\* SELECT ... FROM match WHERE match_id = ..: the match or None
PossGetMatchInfo(d, match_id) == IF match_id \in d.match THEN match_id ELSE NULL

\* the stored id, or a new match_player row with minutes_played 0, committed at once
get_or_create_match_player(d, match_id, player) ==
    IF MatchPlayerId(d, match_id, player) # NULL
    THEN [db |-> d, id |-> MatchPlayerId(d, match_id, player)]
    ELSE [db |-> [d EXCEPT !.match_player = @ \cup
                     {[id |-> MpId(match_id, player), match_id |-> match_id,
                       player_id |-> player, minutes_played |-> 0]}],
          id |-> MpId(match_id, player)]

\* the loop of process_possession_data over the rows i.. of the tables
RECURSIVE process_possession_data(_, _, _, _, _)
process_possession_data(d, match_id, rows, i, acc) ==
    IF i > Len(rows) THEN [db |-> d, ret |-> acc]
    ELSE LET mp == get_or_create_match_player(d, match_id, rows[i].player)
         IN  IF mp.id = NULL
             THEN process_possession_data(mp.db, match_id, rows, i + 1,
                      [acc EXCEPT !.missing_players = Append(@, rows[i].player)])
             ELSE process_possession_data(mp.db, match_id, rows, i + 1,
                      [acc EXCEPT !.records = Append(@,
                          [match_player_id |-> mp.id,
                           touches |-> PossValue(rows[i].touches)])])

\* one record of upsert_possession_data: UPDATE the non-None fields or INSERT
PossWrite(tbl, record) ==
    LET exists == {r \in Rows(tbl) : r.match_player_id = record.match_player_id}
    IN  IF exists # {}
        THEN Update(tbl, [r \in exists |-> SetNonNull(r, record, PossCols)])
        ELSE Insert(tbl, record)

RECURSIVE upsert_possession_data(_, _, _)
upsert_possession_data(tbl, records, i) ==
    IF i > Len(records) THEN tbl
    ELSE upsert_possession_data(PossWrite(tbl, records[i]), records, i + 1)

\* process_file of the possession extractor
PossProcessFile ==
    \E arg \in Inputs("possession.process_file", MatchIds \X PossDocs), rec \in BOOLEAN :
        LET match_info == PossGetMatchInfo(db, arg[1])
            none == [ok |-> FALSE, records |-> <<>>, missing_players |-> <<>>]
            r == process_possession_data(db, match_info, arg[2], 1,
                     [ok |-> TRUE, records |-> <<>>, missing_players |-> <<>>])
            d == [r.db EXCEPT !.match_player_possession =
                     upsert_possession_data(@, r.ret.records, 1)]
        IN  /\ script = "possession"
            /\ IF match_info = NULL
               THEN Step("possession.process_file", arg, none, db, rec)
               ELSE Step("possession.process_file", arg, r.ret, d, rec)

InitPossession ==
    \E mps \in InitMatchPlayers :
        InitRun("possession", [EmptyDb EXCEPT !.match_player = mps])

NextPossession == PossProcessFile

SpecPossession == InitPossession /\ [][NextPossession]_vars

(***************************************************************************)
(* extract_goalkeeper_data_accurate.py                                     *)
(***************************************************************************)
\* None for a missing or non-numeric cell, else the number
clean_numeric_value(cell) == IF cell \in {ABSENT, NULL} THEN NULL ELSE cell

\* a keeper row: its shot-stopping cells are all empty or all hold whole numbers
GkRows ==
    [player : PlayerIds, saves : {ABSENT}, goals_against : {ABSENT},
     shots_on_target_against : {ABSENT}]
    \cup [player : PlayerIds, saves : {1}, goals_against : {0},
          shots_on_target_against : {1, 2}]
GkDocs == TableRows(GkRows)
GkCols == {"saves", "goals_against", "shots_on_target_against"}

\* data.get(col)
GkGet(data, col) == IF col \in DOMAIN data THEN data[col] ELSE NULL
GkAbs(x) == IF x < 0 THEN 0 - x ELSE x

\* the shot-stopping check without its condition that the values are present
\* (an absent value counts as 0)
GkShotStoppingOfAny(data) ==
    LET v(col) == IF GkGet(data, col) = NULL THEN 0 ELSE GkGet(data, col)
    IN  100 * GkAbs(v("saves") + v("goals_against") - v("shots_on_target_against")) > 1
\* all three present and abs(saves + goals_against - shots_on_target_against) > 0.01
GkShotStopping(data) ==
    /\ \A col \in {"saves", "goals_against", "shots_on_target_against"} :
          GkGet(data, col) # NULL
    /\ 100 * GkAbs(data.saves + data.goals_against - data.shots_on_target_against) > 1

\* validate_goalkeeper_data: the issues of a record, in the order of the
\* checks; the save percentage is compared with a tolerance of 0.5
validate_goalkeeper_data(data) ==
    LET sota == GkGet(data, "shots_on_target_against")
        ga == GkGet(data, "goals_against")
        pct == GkGet(data, "save_percentage")
        issues ==
            (IF GkShotStopping(data) THEN <<"shot_stopping">> ELSE <<>>)
            \o (IF /\ sota # NULL /\ ga # NULL /\ pct # NULL
                   /\ sota > 0
                   /\ 2 * GkAbs(100 * (sota - ga) - pct * sota) > sota
                THEN <<"save_percentage">> ELSE <<>>)
            \o (IF /\ GkGet(data, "launched_completed") # NULL
                   /\ GkGet(data, "launched_attempted") # NULL
                   /\ data.launched_completed > data.launched_attempted
                THEN <<"launched">> ELSE <<>>)
            \o (IF /\ GkGet(data, "crosses_stopped") # NULL
                   /\ GkGet(data, "crosses_opposed") # NULL
                   /\ data.crosses_stopped > data.crosses_opposed
                THEN <<"crosses">> ELSE <<>>)
    IN  [is_valid |-> issues = <<>>, issues |-> issues]

process_goalkeeper_row(row, match_id) ==
    [match_id |-> match_id, player_id |-> row.player,
     saves |-> clean_numeric_value(row.saves),
     goals_against |-> clean_numeric_value(row.goals_against),
     shots_on_target_against |-> clean_numeric_value(row.shots_on_target_against)]

\* match info is read from the goalkeeper rows or the match_player rows of the match
GkGetMatchInfo(d, match_id) ==
    \/ \E r \in BagToSet(d.match_goalkeeper_performance) : r.match_id = match_id
    \/ \E r \in d.match_player : r.match_id = match_id

\* team_season_id is read from the match_player or goalkeeper rows of the player
GkGetTeamSeasonId(d, player) ==
    \/ \E r \in d.match_player : r.player_id = player
    \/ \E r \in BagToSet(d.match_goalkeeper_performance) : r.player_id = player

GkSameKey(r, data) == r.match_id = data.match_id /\ r.player_id = data.player_id

\* the statement of upsert_goalkeeper_data: UPDATE the non-null columns and
\* updated_at (1: set by an UPDATE), or INSERT
GkWrite(tbl, data) ==
    LET exists == {r \in Rows(tbl) : GkSameKey(r, data)}
    IN  IF exists # {}
        THEN Update(tbl, [r \in exists |->
                 [SetNonNull(r, data, GkCols) EXCEPT !.updated_at = 1]])
        ELSE Insert(tbl, [data EXCEPT !.updated_at = 0])

\* an upsert that a validation issue blocks
GkUpsertValidOnly(tbl, data) ==
    IF (\A c \in GkCols : data[c] = NULL) \/ ~validate_goalkeeper_data(data).is_valid
    THEN [tbl |-> tbl, ok |-> FALSE]
    ELSE [tbl |-> GkWrite(tbl, data @@ [updated_at |-> 0]), ok |-> TRUE]

\* returns False and writes nothing when no column has a value
upsert_goalkeeper_data(tbl, data) ==
    IF \A c \in GkCols : data[c] = NULL
    THEN [tbl |-> tbl, ok |-> FALSE]
    ELSE [tbl |-> GkWrite(tbl, data @@ [updated_at |-> 0]), ok |-> TRUE]

\* the row loop of process_html_file
RECURSIVE GkLoop(_, _, _, _, _)
GkLoop(d, match_id, rows, i, acc) ==
    IF i > Len(rows) THEN [db |-> d, ret |-> acc]
    ELSE LET data == process_goalkeeper_row(rows[i], match_id)
             w == upsert_goalkeeper_data(d.match_goalkeeper_performance, data)
             counted == [acc EXCEPT !.validation_errors =
                            @ + (IF validate_goalkeeper_data(data).is_valid
                                 THEN 0 ELSE 1)]
         IN  IF ~GkGetTeamSeasonId(d, data.player_id)
             THEN GkLoop(d, match_id, rows, i + 1,
                         [counted EXCEPT !.errors = Append(@, data.player_id)])
             ELSE GkLoop([d EXCEPT !.match_goalkeeper_performance = w.tbl],
                         match_id, rows, i + 1,
                         [counted EXCEPT !.records_updated = @ + (IF w.ok THEN 1 ELSE 0)])

process_html_file ==
    \E arg \in Inputs("process_html_file", MatchIds \X GkDocs), rec \in BOOLEAN :
        LET r == GkLoop(db, arg[1], arg[2], 1,
                        [match_info |-> TRUE, records_updated |-> 0,
                         validation_errors |-> 0, errors |-> <<>>])
            none == [match_info |-> FALSE, records_updated |-> 0,
                     validation_errors |-> 0, errors |-> <<>>]
        IN  /\ script = "goalkeeper_accurate"
            /\ IF ~GkGetMatchInfo(db, arg[1])
               THEN Step("process_html_file", arg, none, db, rec)
               ELSE Step("process_html_file", arg, r.ret, r.db, rec)

InitGoalkeeper ==
    \E mps \in InitMatchPlayers :
        InitRun("goalkeeper_accurate", [EmptyDb EXCEPT !.match_player = mps])

NextGoalkeeper == process_html_file

SpecGoalkeeper == InitGoalkeeper /\ [][NextGoalkeeper]_vars

(***************************************************************************)
(* extract_pass_types_comprehensive.py                                     *)
(***************************************************************************)
\* a cell of parse_pass_types_table: the integer, None when missing or empty
PtValue(cell) == IF cell \in {ABSENT, NULL} THEN NULL ELSE cell

PtRows == [player : PlayerIds, passes : {ABSENT, 0, 1}]
PtDocs == TableRows(PtRows)
PtCols == {"passes", "is_complete"}

\* the rows of the tables whose player has a match_player row, as row_data
RECURSIVE parse_pass_types_table(_, _, _, _)
parse_pass_types_table(d, match_id, rows, i) ==
    IF i > Len(rows) THEN <<>>
    ELSE LET mp == MatchPlayerId(d, match_id, rows[i].player)
             rest == parse_pass_types_table(d, match_id, rows, i + 1)
         IN  IF mp = NULL THEN rest
             ELSE <<[match_player_id |-> mp,
                     passes |-> PtValue(rows[i].passes),
                     is_complete |-> PtValue(rows[i].passes) # NULL]>> \o rest

\* INSERT ... ON CONFLICT (match_player_id) DO UPDATE SET column = EXCLUDED.column
PtUpsert(tbl, row) ==
    LET conflict == {r \in Rows(tbl) : r.match_player_id = row.match_player_id}
    IN  IF conflict # {}
        THEN Update(tbl, [r \in conflict |-> SetAll(r, row, PtCols)])
        ELSE Insert(tbl, row)

\* insert_data: execute_batch of the statement over extracted_data[i..], then commit
RECURSIVE insert_data(_, _, _)
insert_data(tbl, extracted_data, i) ==
    IF i > Len(extracted_data) THEN tbl
    ELSE insert_data(PtUpsert(tbl, extracted_data[i]), extracted_data, i + 1)

\* process_all_files on the documents of one batch: process_file, then
\* insert_data.  The database may refuse the batch (arg[3]): insert_data
\* rolls back, logs and raises, and nothing catches the exception
PtProcessAllFiles ==
    \E arg \in Inputs("insert_data", MatchIds \X PtDocs \X BOOLEAN), rec \in BOOLEAN :
        LET extracted_data == parse_pass_types_table(db, arg[1], arg[2], 1)
            d == [db EXCEPT !.match_player_pass_types =
                     insert_data(@, extracted_data, 1)]
            ret == [extracted_data |-> extracted_data, raised |-> arg[3]]
        IN  /\ script = "pass_types"
            /\ arg[3] => extracted_data # <<>>
            /\ IF arg[3]
               THEN Run("insert_data", arg, ret,
                        Rollback(d, "match_player_pass_types"), rec, FALSE)
               ELSE Step("insert_data", arg, ret, d, rec)

InitPassTypes ==
    \E mps \in InitMatchPlayers :
        InitRun("pass_types", [EmptyDb EXCEPT !.match_player = mps])

NextPassTypes == PtProcessAllFiles

SpecPassTypes == InitPassTypes /\ [][NextPassTypes]_vars

(***************************************************************************)
(* extract_misc_stats_batch.py                                             *)
(***************************************************************************)
\* an integer cell: int(value), 0 when the cell is empty, invalid or missing
MiscCount(cell) == IF cell \in {ABSENT, NULL} THEN 0 ELSE cell

\* the rows of a batch of documents: a player can be listed twice
MiscRows == [player : PlayerIds, fouls_committed : {ABSENT, 1}]
MiscDocs ==
    {s \in UNION {[1..k -> MiscRows] : k \in 1..MaxPlayers} :
        /\ \A i, j \in DOMAIN s : i < j => s[i].player <= s[j].player
        /\ \A i, j \in DOMAIN s : i + 1 < j => s[i].player < s[j].player}
MiscCols == {"fouls_committed"}

\* match_player_cache.get(f"{match_id}_{player_id}"); the cache is loaded from
\* match_player at the start and this script never writes match_player
MiscGetMatchPlayerId(d, match_id, player) == MatchPlayerId(d, match_id, player)

\* the stats_records of the rows i.. : rows without a cached match_player are skipped
RECURSIVE extract_misc_stats_from_html(_, _, _, _)
extract_misc_stats_from_html(d, match_id, rows, i) ==
    IF i > Len(rows) THEN <<>>
    ELSE LET mp == MiscGetMatchPlayerId(d, match_id, rows[i].player)
             rest == extract_misc_stats_from_html(d, match_id, rows, i + 1)
         IN  IF mp = NULL THEN rest
             ELSE <<[match_player_id |-> mp,
                     fouls_committed |-> MiscCount(rows[i].fouls_committed)]>> \o rest

\* the UPDATE statements of process_batch for update_records[i..]
RECURSIVE MiscUpdate(_, _, _)
MiscUpdate(tbl, update_records, i) ==
    IF i > Len(update_records) THEN tbl
    ELSE LET rc == update_records[i]
             old == {r \in Rows(tbl) : r.match_player_id = rc.match_player_id}
         IN  MiscUpdate(Update(tbl, [r \in old |-> SetAll(r, rc, MiscCols)]),
                        update_records, i + 1)

\* execute_values(INSERT ... VALUES %s) of insert_records[i..]
RECURSIVE MiscInsert(_, _, _)
MiscInsert(tbl, insert_records, i) ==
    IF i > Len(insert_records) THEN tbl
    ELSE MiscInsert(Insert(tbl, insert_records[i]), insert_records, i + 1)

\* the records[i..] whose match_player_id is (existing) or is not in existing_ids
RECURSIVE MiscSelect(_, _, _, _)
MiscSelect(records, existing_ids, existing, i) ==
    IF i > Len(records) THEN <<>>
    ELSE (IF (records[i].match_player_id \in existing_ids) = existing
          THEN <<records[i]>> ELSE <<>>)
         \o MiscSelect(records, existing_ids, existing, i + 1)

\* existing ids are read once; the others are inserted, the existing updated.
\* With a unique index on match_player_id the INSERT of two rows of one id
\* raises, nothing is committed and the exception leaves the script.
process_batch(d, batch_records) ==
    LET tbl == d.match_player_misc
        existing_ids == {r.match_player_id : r \in Rows(tbl)}
        insert_records == MiscSelect(batch_records, existing_ids, FALSE, 1)
        update_records == MiscSelect(batch_records, existing_ids, TRUE, 1)
        clash == \E i, j \in DOMAIN insert_records :
                    i # j /\ insert_records[i].match_player_id
                               = insert_records[j].match_player_id
    IN  IF d.misc_unique /\ clash
        THEN [db |-> d, raised |-> TRUE, inserted |-> 0, updated |-> 0]
        ELSE [db |-> [d EXCEPT !.match_player_misc =
                         MiscUpdate(MiscInsert(tbl, insert_records, 1), update_records, 1)],
              raised |-> FALSE,
              inserted |-> Len(insert_records), updated |-> Len(update_records)]

\* process_all_files: the records of the documents of one batch, then process_batch
MiscProcessAllFiles ==
    \E arg \in Inputs("process_batch", MatchIds \X MiscDocs), rec \in BOOLEAN :
        LET batch_records == extract_misc_stats_from_html(db, arg[1], arg[2], 1)
            r == process_batch(db, batch_records)
            ret == [batch_records |-> batch_records, raised |-> r.raised,
                    inserted |-> r.inserted, updated |-> r.updated]
        IN  /\ script = "misc_stats"
            /\ IF batch_records = <<>>
               THEN Step("process_batch", arg, [ret EXCEPT !.inserted = 0], db, rec)
               ELSE Run("process_batch", arg, ret,
                        IF r.raised THEN Rollback(r.db, "match_player_misc") ELSE r.db,
                        rec, ~r.raised)

InitMisc ==
    \E mps \in InitMatchPlayers, unique \in BOOLEAN :
        InitRun("misc_stats", [EmptyDb EXCEPT !.match_player = mps,
                                              !.misc_unique = unique])

NextMisc == MiscProcessAllFiles

SpecMisc == InitMisc /\ [][NextMisc]_vars

\* BatchMiscStatsExtractor(batch_size=...): the records of a full batch
batch_size == 2

\* the documents of the driver's loop: which number a cell holds has no part
\* in the buffering
MiscFileDocs == {doc \in MiscDocs : \A i \in DOMAIN doc : doc[i].fouls_committed = 1}

\* process_all_files, one document of the loop: its records are appended to
\* batch_records, and the buffer is handed to process_batch and emptied when
\* it holds batch_size records or the document is the last one (arg[3]).
\* process_batch has no handler: a refused INSERT ends the driver, and its
\* local buffer with it
MiscProcessOneFile ==
    \E arg \in Inputs("misc.process_all_files", MatchIds \X MiscFileDocs \X BOOLEAN),
       rec \in BOOLEAN :
      \E file_records \in {extract_misc_stats_from_html(db, arg[1], arg[2], 1)} :
        LET batch_records == batch \o file_records
            due == Len(batch_records) >= batch_size \/ arg[3]
            submit == due /\ batch_records # <<>>
            r == process_batch(db, batch_records)
            raised == submit /\ r.raised
            d == IF ~submit THEN db
                 ELSE IF r.raised THEN Rollback(r.db, "match_player_misc")
                 ELSE r.db
        IN  /\ script = "misc_batches"
            /\ alive
            /\ Observe("misc.process_all_files", arg,
                       [data |-> file_records, raised |-> raised,
                        submitted |-> IF submit THEN batch_records ELSE <<>>],
                       d, IF submit THEN <<>> ELSE batch_records, rec)
            /\ alive' = ~(arg[3] \/ raised)
            /\ UNCHANGED <<script, cache, workers>>

InitMiscBatches ==
    \E mps \in InitMatchPlayers, unique \in BOOLEAN :
        InitRun("misc_batches", [EmptyDb EXCEPT !.match_player = mps,
                                                !.misc_unique = unique])

(***************************************************************************)
(* extract_missing_goalkeeper_data.py                                      *)
(***************************************************************************)
\* the goalkeeper of the documents; her name in two spellings that differ in
\* case, None, and a value that is not a string (pandas NaN for an empty cell)
GkPlayer == 1
NAN == 0 - 3
GkNames == {NULL, NAN, 1, 11}
\* LOWER(player_name)
Lower(name) == name % 10
\* hashlib.md5(player_name.encode()).hexdigest()[:8]
Md5Name(name) == 100 + name
\* hashlib.md5(f"{match_id}_{player_id}".encode()).hexdigest()[:8]
Md5MatchPlayer(match_id, player_id) == match_id * 1000 + player_id

\* the gk_data dicts of extract_goalkeepers_from_html
GkData ==
    [player_name : GkNames, player_fbref_id : {ABSENT, GkPlayer},
     saves : {ABSENT, 1}, shots_on_target_against : {ABSENT, 1}]

\* perf.get(col): None when the key is missing
PerfGet(gk_data, col) == IF gk_data[col] = ABSENT THEN NULL ELSE gk_data[col]

\* the lookups of get_player_uuid in another order: the name before the FBref id
GetPlayerUuidNameFirst(players, player_name, player_fbref_id) ==
    LET by_id == {r \in players : player_fbref_id # ABSENT /\ r.player_id = player_fbref_id}
        named == {r \in players : r.player_name \notin {NULL, NAN}
                                    /\ player_name \notin {NULL, NAN}
                                    /\ Lower(r.player_name) = Lower(player_name)}
        S == IF named # {} THEN named ELSE by_id
    IN  [players |-> players, raised |-> S = {}, created |-> FALSE,
         id |-> IF S = {} THEN NULL ELSE (CHOOSE r \in S : TRUE).player_id]

\* get_player_uuid: by FBref id, then by name (exact, then case-insensitive),
\* else a new player row, whose creation is printed (created); raised when a
\* str method is called on None or NaN
get_player_uuid(players, player_name, player_fbref_id) ==
    LET by_id == {r \in players : player_fbref_id # ABSENT /\ r.player_id = player_fbref_id}
        exact == {r \in players : r.player_name = player_name}
        nocase == {r \in players : r.player_name \notin {NULL, NAN}
                                     /\ Lower(r.player_name) = Lower(player_name)}
        found(S) == [players |-> players, raised |-> FALSE, created |-> FALSE,
                     id |-> (CHOOSE r \in S : TRUE).player_id]
        create(id) == [players |-> IF \E r \in players : r.player_id = id THEN players
                                   ELSE players \cup {[player_id |-> id,
                                                       player_name |-> player_name]},
                       raised |-> FALSE, created |-> TRUE, id |-> id]
        raise == [players |-> players, raised |-> TRUE, created |-> FALSE, id |-> NULL]
    IN  IF by_id # {} THEN found(by_id)
        ELSE IF player_name = NAN THEN raise
        ELSE IF player_name # NULL /\ exact # {} THEN found(exact)
        ELSE IF player_name # NULL /\ nocase # {} THEN found(nocase)
        ELSE IF player_fbref_id # ABSENT THEN create(player_fbref_id)
        ELSE IF player_name = NULL THEN raise
        ELSE create(Md5Name(player_name))

\* INSERT ... ON CONFLICT (match_goalkeeper_id) DO UPDATE SET minutes_played,
\* goals_against, saves = EXCLUDED.*
MgkUpsert(tbl, row) ==
    LET conflict == {r \in Rows(tbl) : r.match_goalkeeper_id = row.match_goalkeeper_id}
    IN  IF conflict # {}
        THEN Update(tbl, [r \in conflict |-> SetAll(r, row, {"saves"})])
        ELSE Insert(tbl, row)

\* insert_goalkeeper_performance: an exception of get_player_uuid is caught,
\* the write is skipped and False is returned
MgkInsert(d, match_id, gk_data) ==
    LET u == get_player_uuid(d.player, gk_data.player_name, gk_data.player_fbref_id)
        row == [match_goalkeeper_id |-> Md5MatchPlayer(match_id, u.id),
                match_id |-> match_id, player_id |-> u.id,
                saves |-> PerfGet(gk_data, "saves"),
                shots_on_target_against |-> PerfGet(gk_data, "shots_on_target_against")]
    IN  [db |-> IF u.raised THEN d
                ELSE [d EXCEPT !.player = u.players,
                               !.match_goalkeeper_performance = MgkUpsert(@, row)],
         ret |-> [result |-> ~u.raised, player_id |-> u.id,
                  get_player_uuid_raised |-> u.raised,
                  created |-> u.created, row |-> row]]

\* one call of insert_goalkeeper_performance by the loops of main
insert_goalkeeper_performance ==
    \E arg \in Inputs("insert_goalkeeper_performance", StoredMatches \X GkData),
       rec \in BOOLEAN :
      \E w \in {MgkInsert(db, arg[1], arg[2])} :
        /\ script = "missing_goalkeeper"
        /\ Step("insert_goalkeeper_performance", arg, w.ret, w.db, rec)

\* the tables of a document, each with the team code of its id: a
\* keeper_stats table lists a goalkeeper with its numbers, a stats_*_summary
\* table lists the rows whose position holds GK, without goalkeeper numbers
MgkTables ==
    [kind : {"keeper"}, team : Teams, gks : {<<>>} \cup {<<g>> : g \in
        {x \in GkData : x.player_name = 1 /\ x.player_fbref_id = GkPlayer}}]
    \cup [kind : {"summary"}, team : Teams, gks : {<<>>} \cup {<<g>> : g \in
        {x \in GkData : /\ x.player_name = 1 /\ x.player_fbref_id = GkPlayer
                         /\ x.saves = ABSENT
                         /\ x.shots_on_target_against = ABSENT}}]
MgkDocs == {<<t>> : t \in MgkTables} \cup {<<t, u>> : t, u \in MgkTables}

\* SELECT of the matches without a match_goalkeeper_performance row
get_missing_matches(d) ==
    {m \in d.match :
        ~(\E r \in Rows(d.match_goalkeeper_performance) : r.match_id = m)}

\* the gk_data dicts of a table carry its team code in team_fbref_id
MgkOfTable(table) ==
    [k \in DOMAIN table.gks |-> table.gks[k] @@ [team_fbref_id |-> table.team]]

\* the else branch: teams.away is set and the goalkeepers go to the away list
MgkLaterTable(result, table) ==
    [result EXCEPT !.teams.away = table.team,
                   !.away_goalkeepers = @ \o MgkOfTable(table)]

\* extract_goalkeepers_from_html over tables[i..]: the goalkeepers of the
\* first table that counts are the home goalkeepers, those of every later
\* table the away goalkeepers; a summary table without goalkeeper is passed
RECURSIVE extract_goalkeepers_from_html(_, _, _)
extract_goalkeepers_from_html(tables, i, result) ==
    IF i > Len(tables) THEN result
    ELSE IF tables[i].kind = "summary" /\ tables[i].gks = <<>>
    THEN extract_goalkeepers_from_html(tables, i + 1, result)
    ELSE IF result.teams.home = NULL
    THEN extract_goalkeepers_from_html(tables, i + 1,
             [result EXCEPT !.teams.home = tables[i].team,
                            !.home_goalkeepers = @ \o MgkOfTable(tables[i])])
    ELSE extract_goalkeepers_from_html(tables, i + 1,
             MgkLaterTable(result, tables[i]))

\* the insert loops of main over gks[i..], counting successful and failed
RECURSIVE MgkInsertAll(_, _, _, _, _)
MgkInsertAll(d, match_id, gks, i, acc) ==
    IF i > Len(gks) THEN [db |-> d, ret |-> acc]
    ELSE LET w == MgkInsert(d, match_id, gks[i])
         IN  MgkInsertAll(w.db, match_id, gks, i + 1,
                 IF w.ret.result THEN [acc EXCEPT !.successful = @ + 1]
                 ELSE [acc EXCEPT !.failed = @ + 1])

\* one turn of the match loop of main
MgkMain ==
    \E arg \in Inputs("missing_goalkeeper.main", StoredMatches \X MgkDocs),
       rec \in BOOLEAN :
      \E gk_data \in {extract_goalkeepers_from_html(arg[2], 1,
                          [teams |-> [home |-> NULL, away |-> NULL],
                           home_goalkeepers |-> <<>>,
                           away_goalkeepers |-> <<>>])} :
      \E w \in {MgkInsertAll(db, arg[1],
                     gk_data.home_goalkeepers \o gk_data.away_goalkeepers, 1,
                     [successful |-> 0, failed |-> 0])} :
        /\ script = "missing_goalkeeper"
        /\ arg[1] \in get_missing_matches(db)
        /\ Step("missing_goalkeeper.main", arg,
                [gk_data |-> gk_data, successful |-> w.ret.successful,
                 failed |-> w.ret.failed], w.db, rec)

InitMissingGoalkeeper ==
    \E players \in {{}, {[player_id |-> GkPlayer, player_name |-> 1]},
                     {[player_id |-> GkPlayer, player_name |-> 1],
                      [player_id |-> Md5Name(11), player_name |-> 11]}} :
        InitRun("missing_goalkeeper", [EmptyDb EXCEPT !.player = players])

NextMissingGoalkeeper == insert_goalkeeper_performance \/ MgkMain

SpecMissingGoalkeeper == InitMissingGoalkeeper /\ [][NextMissingGoalkeeper]_vars

(***************************************************************************)
(* extract_team_performance.py                                             *)
(***************************************************************************)
\* parse_stat_value: None for a missing or unparsable cell, else the number
parse_stat_value(cell) == IF cell \in {ABSENT, NULL} THEN NULL ELSE cell

TeamRows == [team : Teams, touches : {ABSENT, 1}, fouls : {ABSENT, 1}]
TeamDocs ==
    {s \in UNION {[1..k -> TeamRows] : k \in 1..2} :
        \A i, j \in DOMAIN s : i < j => s[i].team < s[j].team}

\* the stat_dict of one team: fbref_match_team_id = f"{match_id}_{team_season_id}"
TeamStat(match_id, row) ==
    [fbref_match_team_id |-> match_id * 10 + row.team,
     touches |-> parse_stat_value(row.touches),
     fouls |-> parse_stat_value(row.fouls)]

\* INSERT ... ON CONFLICT (fbref_match_team_id) DO UPDATE SET goals, ..., touches,
\* ..., xg = EXCLUDED.*; fouls and the other columns are not in the SET list
TeamUpsert(tbl, stat) ==
    LET conflict == {r \in Rows(tbl) : r.fbref_match_team_id = stat.fbref_match_team_id}
    IN  IF conflict # {}
        THEN Update(tbl, [r \in conflict |-> SetAll(r, stat, {"touches"})])
        ELSE Insert(tbl, stat)

RECURSIVE insert_team_performance(_, _, _)
insert_team_performance(tbl, stats, i) ==
    IF i > Len(stats) THEN tbl
    ELSE insert_team_performance(TeamUpsert(tbl, stats[i]), stats, i + 1)

\* one match of run_extraction: the team stats of its document are inserted
TeamRunExtraction ==
    \E arg \in Inputs("insert_team_performance", StoredMatches \X TeamDocs),
       rec \in BOOLEAN :
        LET stats == [i \in DOMAIN arg[2] |-> TeamStat(arg[1], arg[2][i])]
        IN  /\ script = "team_performance"
            /\ Step("insert_team_performance", arg, [stats |-> stats],
                    [db EXCEPT !.match_team_performance =
                        insert_team_performance(@, stats, 1)], rec)

InitTeamPerformance == InitRun("team_performance", EmptyDb)

NextTeamPerformance == TeamRunExtraction

SpecTeamPerformance == InitTeamPerformance /\ [][NextTeamPerformance]_vars

(***************************************************************************)
(* extract_tier2_data.py                                                   *)
(***************************************************************************)
\* the number of buffered records that triggers a bulk insert (1000 in the source)
BATCH_SIZE == 2

\* _parse_numeric: None for an empty or missing cell, else the number
Tier2ParseNumeric(cell) == IF cell \in {ABSENT, NULL} THEN NULL ELSE cell

Tier2Rows == [player : PlayerIds, total_completed : {ABSENT, 1}]
Tier2Docs == TableRows(Tier2Rows)

\* load_cache: the matches and the match_player ids stored at the start
load_cache(d) == [matches |-> d.match, match_players |-> d.match_player]

\* the key is put into the cache before the INSERT is tried
Tier2CacheBeforeInsert(d, c, match_id, player) ==
    LET cached == {r \in c.match_players : r.match_id = match_id /\ r.player_id = player}
        created == [id |-> MpId(match_id, player), match_id |-> match_id,
                    player_id |-> player, minutes_played |-> NULL]
        stored == \E r \in d.player : r.player_id = player
    IN  IF cached # {}
        THEN [db |-> d, cache |-> c, id |-> (CHOOSE r \in cached : TRUE).id]
        ELSE [db |-> IF stored THEN [d EXCEPT !.match_player = @ \cup {created}] ELSE d,
              cache |-> [c EXCEPT !.match_players = @ \cup {created}],
              id |-> IF stored THEN created.id ELSE NULL]

\* get_or_create_match_player_id: the cache, then the database, then an INSERT
\* into match_player; the INSERT raises for a player the player table does
\* not hold, the exception is caught and None is returned
get_or_create_match_player_id(d, c, match_id, player) ==
    LET cached == {r \in c.match_players : r.match_id = match_id /\ r.player_id = player}
        created == [id |-> MpId(match_id, player), match_id |-> match_id,
                    player_id |-> player, minutes_played |-> NULL]
    IN  IF cached # {}
        THEN [db |-> d, cache |-> c, id |-> (CHOOSE r \in cached : TRUE).id]
        ELSE IF MatchPlayerId(d, match_id, player) # NULL
        THEN [db |-> d,
              cache |-> [c EXCEPT !.match_players = @ \cup
                            {r \in d.match_player :
                                r.match_id = match_id /\ r.player_id = player}],
              id |-> MatchPlayerId(d, match_id, player)]
        ELSE IF ~(\E r \in d.player : r.player_id = player)
        THEN [db |-> d, cache |-> c, id |-> NULL]
        ELSE [db |-> [d EXCEPT !.match_player = @ \cup {created}],
              cache |-> [c EXCEPT !.match_players = @ \cup {created}],
              id |-> created.id]

\* a row is handed on although its match_player id is None
Tier2KeepEveryRow(match_player_id) == FALSE
\* if not match_player_id: continue
Tier2SkipRow(match_player_id) == match_player_id = NULL

\* extract_passing_data over the rows i.. : a row without a match_player id is skipped
RECURSIVE extract_passing_data(_, _, _, _, _, _)
extract_passing_data(d, c, match_id, rows, i, data) ==
    IF i > Len(rows) THEN [db |-> d, cache |-> c, data |-> data]
    ELSE LET mp == get_or_create_match_player_id(d, c, match_id, rows[i].player)
         IN  IF Tier2SkipRow(mp.id)
             THEN extract_passing_data(mp.db, mp.cache, match_id, rows, i + 1, data)
             ELSE extract_passing_data(mp.db, mp.cache, match_id, rows, i + 1,
                      Append(data,
                          [match_player_passing_id |-> mp.id,
                           match_player_id |-> mp.id,
                           total_completed |-> Tier2ParseNumeric(rows[i].total_completed)]))

\* INSERT ... ON CONFLICT (match_player_passing_id) DO NOTHING
Tier2InsertOne(tbl, record) ==
    LET conflict == {r \in Rows(tbl) :
                        r.match_player_passing_id = record.match_player_passing_id}
    IN  IF conflict # {} THEN tbl ELSE Insert(tbl, record)

RECURSIVE bulk_insert_data(_, _, _)
bulk_insert_data(tbl, data, i) ==
    IF i > Len(data) THEN tbl
    ELSE bulk_insert_data(Tier2InsertOne(tbl, data[i]), data, i + 1)

\* every match id counts as stored
Tier2AnyMatch(c, match_id) == TRUE
\* the match lookup of process_file
Tier2MatchKnown(c, match_id) == match_id \in c.matches

\* the documents of a run, each with the database's answer to the insert of
\* its batch (TRUE: refused); the documents of an unknown match are all
\* treated alike, so one-row documents stand for them
Tier2Inputs ==
    {a \in MatchIds \X Tier2Docs \X BOOLEAN :
        a[1] \notin StoredMatches => Len(a[2]) = 1 /\ ~a[3]}

\* the buffer of a data type is left as it was after its batch was inserted
Tier2BatchKept(buffered) == buffered
\* self.batch_data[data_type] = [] once the batch was handed to bulk_insert_data
Tier2BatchEmptied(buffered) == <<>>

\* process_file: a document of a match the cache lacks is left alone; else the
\* records are buffered and the buffer is inserted once it holds BATCH_SIZE.
\* The database may refuse the batch (arg[3]): bulk_insert_data logs, rolls
\* back and returns 0, and the buffer is emptied all the same
Tier2ProcessFile ==
    \E arg \in Inputs("tier2.process_file", Tier2Inputs), rec \in BOOLEAN :
      \E x \in {extract_passing_data(db, cache, arg[1], arg[2], 1, <<>>)} :
        LET buffered == batch \o x.data
            full == Len(buffered) >= BATCH_SIZE
            written == [x.db EXCEPT !.match_player_passing =
                           bulk_insert_data(@, buffered, 1)]
            d == IF ~full THEN x.db
                 ELSE IF arg[3] THEN Rollback(written, "match_player_passing")
                 ELSE written
        IN  /\ script = "tier2"
            /\ alive
            /\ arg[3] => Tier2MatchKnown(cache, arg[1]) /\ full
            /\ IF ~Tier2MatchKnown(cache, arg[1])
               THEN /\ Observe("tier2.process_file", arg,
                               [known |-> FALSE, data |-> <<>>, failed |-> FALSE,
                                submitted |-> <<>>],
                               db, batch, rec)
                    /\ UNCHANGED cache
               ELSE /\ Observe("tier2.process_file", arg,
                               [known |-> TRUE, data |-> x.data, failed |-> arg[3],
                                submitted |-> IF full THEN buffered ELSE <<>>], d,
                               IF full THEN Tier2BatchEmptied(buffered) ELSE buffered,
                               rec)
                    /\ cache' = x.cache
            /\ UNCHANGED <<script, alive, workers>>

\* flush_batches at the end of process_all_files
flush_batches ==
    \E failed \in BOOLEAN :
    /\ script = "tier2"
    /\ alive
    /\ op.arg = <<>>
    /\ failed => batch # <<>>
    /\ Observe("flush_batches", <<Len(batch)>>,
               [data |-> batch, failed |-> failed, submitted |-> batch],
               LET written == [db EXCEPT !.match_player_passing =
                                  bulk_insert_data(@, batch, 1)]
               IN  IF failed THEN Rollback(written, "match_player_passing")
                   ELSE written,
               Tier2BatchEmptied(batch), TRUE)
    /\ alive' = FALSE
    /\ UNCHANGED <<script, cache, workers>>

InitTier2 ==
    \E k \in 0..MaxPlayers, j \in 0..MaxPlayers :
        LET d == [EmptyDb EXCEPT
                    !.player = {[player_id |-> p, player_name |-> p] : p \in 1..k},
                    !.match_player = {[id |-> MpId(1, p), match_id |-> 1, player_id |-> p,
                                       minutes_played |-> 90] : p \in 1..j}]
        IN  /\ j <= k
            /\ script = "tier2"
            /\ alive = TRUE
            /\ db = d
            /\ committed = d
            /\ cache = load_cache(d)
            /\ batch = <<>>
            /\ prev_db = d
            /\ prev_batch = <<>>
            /\ op = NoOp
            /\ repeat = FALSE
            /\ workers = NoWorkers

NextTier2 == Tier2ProcessFile \/ flush_batches

SpecTier2 == InitTier2 /\ [][NextTier2]_vars

(***************************************************************************)
(* extract_fbref_passing_full.py                                           *)
(***************************************************************************)
\* a document with the passing row of one player; a stat whose cell is empty
\* or not a number is not a key of the stats mapping (ABSENT)
PassingRows == [player : PlayerIds, passes : {ABSENT, 10, 12}, assists : {ABSENT, 1}]
PassingDocs == {<<r>> : r \in PassingRows}
PassingCols == {"passes", "assists"}

\* the stats mapping of a row: int(value) for the cells that have a value
PassingStats(row) == [c \in PassingCols |-> row[c]]

\* match_player LEFT JOIN match_player_passing: no record (found is FALSE)
\* without a match_player row, passing_id None without a passing row
get_match_player_record(d, match_id, player) ==
    LET mp == MatchPlayerId(d, match_id, player)
        joined == {r \in Rows(d.match_player_passing) : r.match_player_id = mp}
    IN  [found |-> mp # NULL,
         id |-> mp,
         passing_id |-> IF joined = {} THEN NULL
                        ELSE (CHOOSE r \in joined : TRUE).id]

PassingReplaceRow(tbl, match_player_id, passing_id, stats) ==
    IF passing_id # NULL
    THEN Update(tbl, [r \in {x \in Rows(tbl) : x.id = passing_id} |->
             [r EXCEPT !.passes = IF stats.passes = ABSENT THEN NULL ELSE stats.passes,
                       !.assists = IF stats.assists = ABSENT THEN NULL ELSE stats.assists,
                       !.updated_at = 1]])
    ELSE Insert(tbl, [id |-> BagCardinality(tbl) + 1,
                      match_player_id |-> match_player_id,
                      passes |-> IF stats.passes = ABSENT THEN NULL ELSE stats.passes,
                      assists |-> IF stats.assists = ABSENT THEN NULL ELSE stats.assists,
                      updated_at |-> 0])
\* update_passing_record: UPDATE the columns of stats and updated_at (1: set by
\* an UPDATE) WHERE id = passing_id, or INSERT match_player_id and the columns
\* of stats (the id is the next serial, the other columns are NULL)
update_passing_record(tbl, match_player_id, passing_id, stats) ==
    IF passing_id # NULL
    THEN Update(tbl, [r \in {x \in Rows(tbl) : x.id = passing_id} |->
             [r EXCEPT !.passes = IF stats.passes = ABSENT THEN @ ELSE stats.passes,
                       !.assists = IF stats.assists = ABSENT THEN @ ELSE stats.assists,
                       !.updated_at = 1]])
    ELSE Insert(tbl, [id |-> BagCardinality(tbl) + 1,
                      match_player_id |-> match_player_id,
                      passes |-> IF stats.passes = ABSENT THEN NULL ELSE stats.passes,
                      assists |-> IF stats.assists = ABSENT THEN NULL ELSE stats.assists,
                      updated_at |-> 0])

\* the player loop of process_match_file; fails[i] tells whether the database
\* refuses the statement of rows[i]: update_passing_record then rolls the
\* connection back and returns False
RECURSIVE PassingLoop(_, _, _, _, _, _)
PassingLoop(d, match_id, rows, fails, i, acc) ==
    IF i > Len(rows) THEN [db |-> d, ret |-> acc]
    ELSE LET stats == PassingStats(rows[i])
             mp_record == get_match_player_record(d, match_id, rows[i].player)
         IN  IF \A c \in PassingCols : stats[c] = ABSENT
             THEN PassingLoop(d, match_id, rows, fails, i + 1, acc)
             ELSE IF ~mp_record.found
             THEN PassingLoop(d, match_id, rows, fails, i + 1,
                              [acc EXCEPT !.errors = Append(@, rows[i].player)])
             ELSE IF fails[i]
             THEN PassingLoop(Rollback(d, "match_player_passing"),
                              match_id, rows, fails, i + 1,
                              [acc EXCEPT !.errors = Append(@, rows[i].player)])
             ELSE PassingLoop([d EXCEPT !.match_player_passing =
                                   update_passing_record(@, mp_record.id,
                                                         mp_record.passing_id, stats)],
                              match_id, rows, fails, i + 1,
                              [acc EXCEPT !.players_updated = @ + 1])

\* the documents of a stored match with one stat for each of its players
PassingTeamDocs ==
    TableRows([player : PlayerIds, passes : {10}, assists : {ABSENT}])

\* the documents of a run, each with the database's answer to the statement
\* of every row (TRUE: refused).  The loop treats every stat and every
\* unknown match alike, so the database refuses rows of PassingTeamDocs only
PassingInputs ==
    {<<m, doc, [i \in DOMAIN doc |-> FALSE]>> : m \in MatchIds, doc \in PassingDocs}
    \cup UNION {{<<m, doc, f>> : m \in StoredMatches, f \in [DOMAIN doc -> BOOLEAN]} :
                  doc \in PassingTeamDocs}

process_match_file ==
    \E arg \in Inputs("process_match_file", PassingInputs), rec \in BOOLEAN :
        LET r == PassingLoop(db, arg[1], arg[2], arg[3], 1,
                             [players_updated |-> 0, errors |-> <<>>])
        IN  /\ script = "passing"
            /\ Step("process_match_file", arg, r.ret, r.db, rec)

InitPassing ==
    \E mps \in InitMatchPlayers :
        InitRun("passing", [EmptyDb EXCEPT !.match_player = mps])

NextPassing == process_match_file

SpecPassing == InitPassing /\ [][NextPassing]_vars

(***************************************************************************)
(* extract_comprehensive_lineups_v3.py                                     *)
(***************************************************************************)
\* the rows of the summary tables of a document, in table order; nothing in the
\* loop over the rows looks for a player that an earlier row already listed
LineupRows == [player : PlayerIds]
LineupDocs ==
    {s \in UNION {[1..k -> LineupRows] : k \in 0..MaxPlayers} :
        \A i, j \in DOMAIN s : i < j => s[i].player <= s[j].player}
\* the rows match_lineup may hold before the model stops adding to it
MaxLineupRows == 2 * MaxPlayers

\* str(uuid.uuid4()): an id no stored row and no earlier entry has; the n-th
\* id drawn while the table holds the rows of tbl
Uuid4(tbl, n) == BagCardinality(tbl) + n

\* matches with COUNT(DISTINCT ml.lineup_id) = 0
get_matches_missing_lineups(d) ==
    {m \in d.match : ~(\E r \in Rows(d.match_lineup) : r.match_id = m)}

\* Text is a sequence of words; a word is a number, w + 10 is the word w
\* written with a capital (Lower).  Word 1 has two letters, the others five.
WordLen(w) == IF Lower(w) = 1 THEN 2 ELSE 5
LowerText(text) == [i \in DOMAIN text |-> Lower(text[i])]
\* name in caption: the words of name are consecutive words of caption
TextIn(name, caption) ==
    \E k \in 0..Len(caption) :
        /\ k + Len(name) <= Len(caption)
        /\ \A i \in DOMAIN name : caption[k + i] = name[i]

\* identify_team_from_caption: the full home name, the full away name, a home
\* word of more than 3 letters, an away word of more than 3 letters; "none"
\* is None
identify_team_from_caption(caption_text, home_team, away_team) ==
    LET caption_lower == LowerText(caption_text)
        home_lower == LowerText(home_team)
        away_lower == LowerText(away_team)
        word_in(name) == \E i \in DOMAIN name :
                            WordLen(name[i]) > 3 /\ TextIn(<<name[i]>>, caption_lower)
    IN  IF home_lower # <<>> /\ TextIn(home_lower, caption_lower) THEN "home"
        ELSE IF away_lower # <<>> /\ TextIn(away_lower, caption_lower) THEN "away"
        ELSE IF word_in(home_lower) THEN "home"
        ELSE IF word_in(away_lower) THEN "away"
        ELSE "none"

\* the team of a table whose caption is missing (<<>>) or names no team
LineupTeamAlwaysHome(table_idx) == "home"
\* team_type = 'home' if table_idx == 0 else 'away'
LineupTeamByOrder(table_idx) == IF table_idx = 0 THEN "home" ELSE "away"

\* the team of a summary table: by its caption, else by its place
LineupTeamType(table, table_idx, match_info) ==
    LET team_type == IF table.caption = <<>> THEN "none"
                     ELSE identify_team_from_caption(table.caption[1],
                              match_info.home_team, match_info.away_team)
    IN  IF team_type = "none" THEN LineupTeamByOrder(table_idx) ELSE team_type

\* the ordinal rule alone
StarterByOrder(player_count, minutes) == player_count <= 11

\* is_starter of the player_count-th player of a summary table
StarterHeuristic(player_count, minutes) ==
    IF minutes = 0 THEN FALSE
    ELSE IF minutes >= 60 /\ player_count <= 14 THEN TRUE
    ELSE player_count <= 11

\* the entries of the rows[i..] of one summary table, appended to lineups
RECURSIVE LineupTableEntries(_, _, _, _, _, _)
LineupTableEntries(tbl, match_info, team_type, rows, i, lineups) ==
    IF i > Len(rows) THEN lineups
    ELSE LineupTableEntries(tbl, match_info, team_type, rows, i + 1,
             Append(lineups,
                 [lineup_id |-> Uuid4(tbl, Len(lineups) + 1),
                  match_id |-> match_info.match_id,
                  player_id |-> rows[i].player,
                  position |-> "",  \* the position cell is not in the rows
                  is_starter |-> StarterHeuristic(i, rows[i].minutes),
                  team_season_id |-> team_type]))

\* the loop over the summary tables[t..]
RECURSIVE LineupSummaryTables(_, _, _, _, _)
LineupSummaryTables(tbl, match_info, tables, t, lineups) ==
    IF t > Len(tables) THEN lineups
    ELSE LineupSummaryTables(tbl, match_info, tables, t + 1,
             LineupTableEntries(tbl, match_info,
                 LineupTeamType(tables[t], t - 1, match_info),
                 tables[t].rows, 1, lineups))

\* the loop over the keeper tables[t..], each of one row: a goalkeeper that
\* lineups lacks is added when the caption names a team
RECURSIVE LineupKeeperTables(_, _, _, _, _)
LineupKeeperTables(tbl, match_info, keepers, t, lineups) ==
    IF t > Len(keepers) THEN lineups
    ELSE LET player == keepers[t].rows[1].player
             team_type == IF keepers[t].caption = <<>> THEN "none"
                          ELSE identify_team_from_caption(keepers[t].caption[1],
                                   match_info.home_team, match_info.away_team)
         IN  IF \/ \E k \in DOMAIN lineups : lineups[k].player_id = player
                \/ team_type = "none"
             THEN LineupKeeperTables(tbl, match_info, keepers, t + 1, lineups)
             ELSE LineupKeeperTables(tbl, match_info, keepers, t + 1,
                      Append(lineups,
                          [lineup_id |-> Uuid4(tbl, Len(lineups) + 1),
                           match_id |-> match_info.match_id,
                           player_id |-> player,
                           position |-> "GK",
                           is_starter |-> TRUE,
                           team_season_id |-> team_type]))

\* one lineup entry per summary row, each with a new lineup_id, then the
\* goalkeepers of the keeper tables that are not yet listed
extract_lineup_from_html(tbl, match_info, page) ==
    LineupKeeperTables(tbl, match_info, page.keepers, 1,
        LineupSummaryTables(tbl, match_info, page.tables, 1, <<>>))

\* the names of the teams of a match: "Reign FC" (or no home name) and "Pride"
LineupMatchInfo(match_id, home_team) ==
    [match_id |-> match_id, home_team |-> home_team, away_team |-> <<13>>]
\* a page with one summary table, captioned with the home team's name, whose
\* players played the whole match
LineupPage(rows) ==
    [tables |-> <<[caption |-> <<<<12, 1>>>>,
                   rows |-> [i \in DOMAIN rows |->
                                [player |-> rows[i].player, minutes |-> 90]]]>>,
     keepers |-> <<>>]

\* INSERT ... ON CONFLICT (lineup_id) DO NOTHING
LineupInsertOne(tbl, entry) ==
    LET conflict == {r \in Rows(tbl) : r.lineup_id = entry.lineup_id}
    IN  IF conflict # {} THEN tbl ELSE Insert(tbl, entry)

\* execute_batch of the INSERT over lineups[i..]
RECURSIVE insert_lineups(_, _, _)
insert_lineups(tbl, lineups, i) ==
    IF i > Len(lineups) THEN tbl
    ELSE insert_lineups(LineupInsertOne(tbl, lineups[i]), lineups, i + 1)

\* extract the entries of one document of a match and write them
LineupWrite(name, arg, rec) ==
    LET lineups == extract_lineup_from_html(db.match_lineup,
                       LineupMatchInfo(arg[1], <<12, 1>>), LineupPage(arg[2]))
        tbl == insert_lineups(db.match_lineup, lineups, 1)
    IN  /\ script = "lineups"
        /\ BagCardinality(db.match_lineup) + Len(lineups) <= MaxLineupRows
        /\ Step(name, arg, [lineups |-> lineups,
                            inserted |-> BagCardinality(tbl)
                                           - BagCardinality(db.match_lineup)],
                [db EXCEPT !.match_lineup = tbl], rec)

\* one turn of the loop of main: a match that get_matches_missing_lineups lists
LineupMain ==
    \E arg \in Inputs("lineups.main", StoredMatches \X LineupDocs), rec \in BOOLEAN :
        /\ arg[1] \in get_matches_missing_lineups(db)
        /\ LineupWrite("lineups.main", arg, rec)

\* extract_lineup_from_html followed by insert_lineups, as the module offers them
LineupExtractAndInsert ==
    \E arg \in Inputs("insert_lineups", StoredMatches \X LineupDocs), rec \in BOOLEAN :
        LineupWrite("insert_lineups", arg, rec)

InitLineups == InitRun("lineups", EmptyDb)

NextLineups == LineupMain \/ LineupExtractAndInsert

SpecLineups == InitLineups /\ [][NextLineups]_vars

(***************************************************************************)
(* extract_tier1_data.py                                                   *)
(***************************************************************************)
\* a document has at most one keeper_stats row and one or two shots rows; the team
\* of a keeper table is a stored team and the match is of a focus year
Tier1KeeperRows == [player : PlayerIds]
Tier1ShotRows == [player : PlayerIds, minute : {NULL, 45}, xg : {NULL, 1}]
\* two different shots of one player in one shots table
Tier1ShotPairs ==
    {<<a, b>> : a, b \in [player : {1}, minute : {NULL, 45}, xg : {1, 2}]} \
        {<<a, a>> : a \in [player : {1}, minute : {NULL, 45}, xg : {1, 2}]}
Tier1Docs ==
    [keepers : {<<>>} \cup {<<r>> : r \in Tier1KeeperRows},
     shots : {<<>>} \cup {<<r>> : r \in Tier1ShotRows}]
    \cup [keepers : {<<>>}, shots : Tier1ShotPairs]

\* load_cache of the tier-1 extractor: the stored players and matches
Tier1LoadCache(d) ==
    [matches |-> d.match, players |-> {r.player_id : r \in d.player},
     match_players |-> {}]

\* extract_goalkeeper_data: one record per keeper row
extract_goalkeeper_data(match_hex_id, rows) ==
    [i \in DOMAIN rows |-> [match_hex_id |-> match_hex_id,
                            player_hex_id |-> rows[i].player]]

\* extract_shot_data: a shot is kept when it has a minute or an xG value
RECURSIVE extract_shot_data(_, _, _)
extract_shot_data(match_hex_id, rows, i) ==
    IF i > Len(rows) THEN <<>>
    ELSE (IF rows[i].minute # NULL \/ rows[i].xg # NULL
          THEN <<[match_hex_id |-> match_hex_id, player_hex_id |-> rows[i].player,
                  minute |-> rows[i].minute, xg |-> rows[i].xg]>>
          ELSE <<>>)
         \o extract_shot_data(match_hex_id, rows, i + 1)

\* insert_goalkeeper_records over records[i..]: a record of an unknown match
\* or player and a record that is already stored are skipped
RECURSIVE insert_goalkeeper_records(_, _, _, _)
insert_goalkeeper_records(tbl, c, records, i) ==
    IF i > Len(records) THEN tbl
    ELSE LET rc == records[i]
             stored == {r \in Rows(tbl) : r.match_id = rc.match_hex_id
                                           /\ r.player_id = rc.player_hex_id}
         IN  IF \/ rc.match_hex_id \notin c.matches
                \/ rc.player_hex_id \notin c.players
                \/ stored # {}
             THEN insert_goalkeeper_records(tbl, c, records, i + 1)
             ELSE insert_goalkeeper_records(
                      Insert(tbl, [match_goalkeeper_id |->
                                       <<rc.match_hex_id, rc.player_hex_id>>,
                                   match_id |-> rc.match_hex_id,
                                   player_id |-> rc.player_hex_id]),
                      c, records, i + 1)

\* insert_shot_records over records[i..]: shot_id is made of the match, the
\* player and the minute; a shot whose shot_id is stored is skipped
RECURSIVE insert_shot_records(_, _, _, _)
insert_shot_records(tbl, c, records, i) ==
    IF i > Len(records) THEN tbl
    ELSE LET rc == records[i]
             shot_id == <<rc.match_hex_id, rc.player_hex_id, rc.minute>>
         IN  IF \/ rc.match_hex_id \notin c.matches
                \/ \E r \in Rows(tbl) : r.shot_id = shot_id
             THEN insert_shot_records(tbl, c, records, i + 1)
             ELSE insert_shot_records(
                      Insert(tbl, [shot_id |-> shot_id, match_id |-> rc.match_hex_id,
                                   player_id |-> rc.player_hex_id,
                                   minute |-> rc.minute]),
                      c, records, i + 1)

\* the match lookup of process_all_files
Tier1MatchKnown(c, match_hex_id) == match_hex_id \in c.matches

\* one turn of the loop of process_all_files
Tier1ProcessFile ==
    \E arg \in Inputs("tier1.process_file", MatchIds \X Tier1Docs), rec \in BOOLEAN :
        LET gk_data == extract_goalkeeper_data(arg[1], arg[2].keepers)
            shot_data == extract_shot_data(arg[1], arg[2].shots, 1)
            d == [db EXCEPT
                    !.match_goalkeeper_summary =
                        insert_goalkeeper_records(@, cache, gk_data, 1),
                    !.match_shot = insert_shot_records(@, cache, shot_data, 1)]
        IN  /\ script = "tier1"
            /\ IF ~Tier1MatchKnown(cache, arg[1])
               THEN Step("tier1.process_file", arg,
                         [known |-> FALSE, gk_data |-> <<>>, shot_data |-> <<>>],
                         db, rec)
               ELSE Step("tier1.process_file", arg,
                         [known |-> TRUE, gk_data |-> gk_data, shot_data |-> shot_data],
                         d, rec)

InitTier1 ==
    \E k \in 0..MaxPlayers :
        LET d == [EmptyDb EXCEPT
                    !.player = {[player_id |-> p, player_name |-> p] : p \in 1..k}]
        IN  /\ script = "tier1"
            /\ alive = TRUE
            /\ db = d
            /\ committed = d
            /\ cache = Tier1LoadCache(d)
            /\ batch = <<>>
            /\ prev_db = d
            /\ prev_batch = <<>>
            /\ op = NoOp
            /\ repeat = FALSE
            /\ workers = NoWorkers

NextTier1 == Tier1ProcessFile

SpecTier1 == InitTier1 /\ [][NextTier1]_vars

(***************************************************************************)
(* extract_shot_data.py                                                    *)
(***************************************************************************)
\* the rows of the shots_all table: the Minute cell as parse_minute reads it
\* and the Player cell (NULL when empty)
ShotRows == [minute : {NULL, 45}, player_name : {NULL, 1}]
ShotDocs == UNION {[1..k -> ShotRows] : k \in 0..MaxPlayers}

\* SELECT of the matches that have no match_shot row
get_matches_without_shots(d) ==
    {m \in d.match : \A r \in Rows(d.match_shot) : r.match_id # m}

\* extract_shot_data_from_html over rows[i..]: parse_shot_row keeps a row
\* that has a minute and a player name; shot_id is made of the match and the
\* index of the row in the table
RECURSIVE extract_shot_data_from_html(_, _, _)
extract_shot_data_from_html(match_id, rows, i) ==
    IF i > Len(rows) THEN <<>>
    ELSE (IF rows[i].minute # NULL /\ rows[i].player_name # NULL
          THEN <<[shot_id |-> <<match_id, i - 1>>, match_id |-> match_id,
                  minute |-> rows[i].minute, player_id |-> NULL]>>
          ELSE <<>>)
         \o extract_shot_data_from_html(match_id, rows, i + 1)

\* insert_shots_to_db over shots[i..]: INSERT ... ON CONFLICT (shot_id) DO NOTHING
RECURSIVE insert_shots_to_db(_, _, _)
insert_shots_to_db(tbl, shots, i) ==
    IF i > Len(shots) THEN tbl
    ELSE insert_shots_to_db(
             IF \E r \in Rows(tbl) : r.shot_id = shots[i].shot_id
             THEN tbl ELSE Insert(tbl, shots[i]),
             shots, i + 1)

\* one turn of the loop of process_matches on a match without shots.  The
\* database may refuse the batch (raises): insert_shots_to_db rolls back,
\* logs and raises again, nothing in the loop catches it, and main logs
\* "Extraction failed" and exits
ShotProcessMatch ==
    \E arg \in Inputs("insert_shots_to_db", MatchIds \X ShotDocs \X BOOLEAN),
       rec \in BOOLEAN :
        LET shots == extract_shot_data_from_html(arg[1], arg[2], 1)
            raised == shots # <<>> /\ arg[3]
            d == [db EXCEPT !.match_shot = insert_shots_to_db(@, shots, 1)]
        IN  /\ script = "shot_data"
            /\ arg[1] \in get_matches_without_shots(db)
            /\ Run("insert_shots_to_db", arg,
                   [shots |-> shots, raised |-> raised,
                    remaining |-> get_matches_without_shots(db) \ {arg[1]}],
                   IF raised THEN Rollback(d, "match_shot") ELSE d, rec, ~raised)

InitShotData == InitRun("shot_data", [EmptyDb EXCEPT !.match = MatchIds])

NextShotData == ShotProcessMatch

SpecShotData == InitShotData /\ [][NextShotData]_vars

(***************************************************************************)
(* validate_goalkeeper_data as a function of one keeper row                *)
(***************************************************************************)
\* the cells of a keeper row that the checks read; ABSENT: the table lacks
\* the column or the cell is empty
GkValidateRows ==
    [saves : {ABSENT, 0, 4}, goals_against : {ABSENT, 0, 1},
     shots_on_target_against : {ABSENT, 0, 5}, save_percentage : {ABSENT, 50, 80},
     launched_completed : {ABSENT, 3}, launched_attempted : {ABSENT, 2},
     crosses_stopped : {ABSENT, 1}, crosses_opposed : {0}]

\* process_goalkeeper_row on one row: the cells are cleaned, then validated
GkValidateRow ==
    \E arg \in Inputs("validate_goalkeeper_data", {<<r>> : r \in GkValidateRows}),
       rec \in BOOLEAN :
        LET row == arg[1]
            data == [c \in DOMAIN row |-> clean_numeric_value(row[c])]
            v == validate_goalkeeper_data(data)
        IN  /\ script = "validate_goalkeeper_data"
            /\ Step("validate_goalkeeper_data", arg,
                    [data |-> data, is_valid |-> v.is_valid, issues |-> v.issues],
                    db, rec)

InitValidate == InitRun("validate_goalkeeper_data", EmptyDb)

NextValidate == GkValidateRow

SpecValidate == InitValidate /\ [][NextValidate]_vars

(***************************************************************************)
(* extract_lineup_from_html and the starter rule as functions of a page    *)
(***************************************************************************)
\* captions: none (<<>>), "stats", "reign fc", "reign stats", "pride", "fc stats"
LineupCaptions ==
    {<<>>, <<<<4>>>>, <<<<2, 1>>>>, <<<<2, 4>>>>, <<<<3>>>>, <<<<1, 4>>>>}
LineupSummaryTable ==
    [caption : LineupCaptions,
     rows : {<<>>} \cup {<<r>> : r \in [player : PlayerIds, minutes : {0, 90}]}]
LineupKeeperTable ==
    [caption : LineupCaptions, rows : {<<r>> : r \in [player : PlayerIds]}]
\* a page and the home team's name in the database ("Reign FC" or empty)
LineupPages ==
    [home_team : {<<>>, <<12, 1>>},
     tables : {<<>>} \cup {<<t>> : t \in LineupSummaryTable}
                \cup {<<t, u>> : t, u \in LineupSummaryTable},
     keepers : {<<>>} \cup {<<k>> : k \in LineupKeeperTable}]

\* extract_lineup_from_html on a page of stored match 1
LineupExtract ==
    \E arg \in Inputs("extract_lineup_from_html", {<<pg>> : pg \in LineupPages}),
       rec \in BOOLEAN :
        /\ script = "lineup_extract"
        /\ Step("extract_lineup_from_html", arg,
                [lineups |-> extract_lineup_from_html(db.match_lineup,
                                 LineupMatchInfo(1, arg[1].home_team), arg[1])],
                db, rec)

\* the starter rule on the player_count-th row of a table and its minutes
LineupStarter ==
    \E arg \in Inputs("is_starter", (1..16) \X {0, 1, 45, 59, 60, 75, 90}),
       rec \in BOOLEAN :
        /\ script = "lineup_extract"
        /\ Step("is_starter", arg,
                [is_starter |-> StarterHeuristic(arg[1], arg[2])], db, rec)

\* the text of a minutes cell: no cell (ABSENT), empty (NULL), not a number
\* (NAN), or a number written in tenths of a minute (5 is "0.5", 900 is "90")
LineupMinuteCells == {ABSENT, NULL, NAN, 0, 5, 10, 450, 600, 755, 900}

\* minutes = int(float(cell_text)) if cell_text else 0; except: minutes = 0
LineupMinutes(cell) == IF cell \in {ABSENT, NULL, NAN} THEN 0 ELSE cell \div 10

\* the minutes cell of the player_count-th row, parsed, and the starter rule
LineupStarterOfCell ==
    \E arg \in Inputs("starter_of_cell", (1..16) \X LineupMinuteCells),
       rec \in BOOLEAN :
        /\ script = "lineup_extract"
        /\ Step("starter_of_cell", arg,
                [minutes |-> LineupMinutes(arg[2]),
                 is_starter |-> StarterHeuristic(arg[1], LineupMinutes(arg[2]))],
                db, rec)

InitLineupExtract == InitRun("lineup_extract", EmptyDb)

NextLineupExtract == LineupExtract \/ LineupStarter \/ LineupStarterOfCell

SpecLineupExtract == InitLineupExtract /\ [][NextLineupExtract]_vars

(***************************************************************************)
(* The text conversions of the extractors.  A text is a sequence of one-   *)
(* character strings; a Python float is [none, raised, mant, exp], the     *)
(* number mant / 10^exp with mant not ending in 0 unless exp is 0; none    *)
(* is Python None, raised an uncaught ValueError.                          *)
(***************************************************************************)
TextDigits == {"0", "2", "4", "5", "8"}
DigitVal(c) ==
    CASE c = "0" -> 0 [] c = "2" -> 2 [] c = "4" -> 4 [] c = "5" -> 5 [] c = "8" -> 8

MaxText == 5
Texts(Alphabet, n) == UNION {[1..k -> Alphabet] : k \in 0..n}

RECURSIVE Pow10(_)
Pow10(k) == IF k = 0 THEN 1 ELSE 10 * Pow10(k - 1)

PyNone == [none |-> TRUE, raised |-> FALSE, mant |-> 0, exp |-> 0]
PyRaised == [none |-> FALSE, raised |-> TRUE, mant |-> 0, exp |-> 0]
RECURSIVE PyFloat(_, _)
PyFloat(mant, exp) ==
    IF exp > 0 /\ mant % 10 = 0 THEN PyFloat(mant \div 10, exp - 1)
    ELSE [none |-> FALSE, raised |-> FALSE, mant |-> mant, exp |-> exp]

\* str.replace(ch, '')
RECURSIVE StrRemove(_, _)
StrRemove(s, ch) ==
    IF s = <<>> THEN <<>>
    ELSE (IF Head(s) = ch THEN <<>> ELSE <<Head(s)>>) \o StrRemove(Tail(s), ch)

\* str.strip()
RECURSIVE StrLStrip(_)
StrLStrip(s) == IF s # <<>> /\ Head(s) = " " THEN StrLStrip(Tail(s)) ELSE s
StrReverse(s) == [i \in 1..Len(s) |-> s[Len(s) + 1 - i]]
StrStrip(s) == StrReverse(StrLStrip(StrReverse(StrLStrip(s))))

\* str.split(ch)[0]
StrSplitHead(s, ch) ==
    LET at == {i \in 1..Len(s) : s[i] = ch}
    IN  IF at = {} THEN s
        ELSE SubSeq(s, 1, (CHOOSE i \in at : \A j \in at : i <= j) - 1)

\* ch in s
StrHas(s, ch) == \E i \in 1..Len(s) : s[i] = ch

\* the digits of s as a number
RECURSIVE StrDigits(_, _)
StrDigits(s, acc) ==
    IF s = <<>> THEN acc ELSE StrDigits(Tail(s), 10 * acc + DigitVal(Head(s)))

\* float(s): blanks around the number and one leading + are accepted, then
\* digits with at most one point; anything else is a ValueError
FloatOf(s) ==
    LET t == StrStrip(s)
        u == IF t # <<>> /\ Head(t) = "+" THEN Tail(t) ELSE t
        points == {i \in 1..Len(u) : u[i] = "."}
        ok == /\ \A i \in 1..Len(u) : u[i] \in TextDigits \cup {"."}
              /\ Cardinality(points) <= 1
              /\ \E i \in 1..Len(u) : u[i] \in TextDigits
    IN  IF ~ok THEN PyRaised
        ELSE PyFloat(StrDigits(StrRemove(u, "."), 0),
                     IF points = {} THEN 0
                     ELSE Len(u) - (CHOOSE i \in points : TRUE))

\* x / 100
FloatDiv100(x) == IF x.none \/ x.raised THEN x ELSE PyFloat(x.mant, x.exp + 2)
\* int(x)
IntOf(x) == x.mant \div Pow10(x.exp)

\* the challenge_tackles_pct cell of extract_defensive_actions_from_html
DefParsePct(text) ==
    LET value == StrStrip(text)
        cleaned == StrStrip(StrRemove(value, "%"))
    IN  IF value = <<>> \/ cleaned = <<>> THEN PyNone
        ELSE IF FloatOf(cleaned).raised THEN PyNone
        ELSE FloatOf(cleaned)

\* FBrefDataExtractor._parse_percentage on the text of a cell
_parse_percentage(value) ==
    LET cleaned == StrStrip(StrRemove(value, "%"))
    IN  IF value = <<>> \/ cleaned = <<>> THEN PyNone
        ELSE IF FloatOf(cleaned).raised THEN PyNone
        ELSE FloatOf(cleaned)

\* save_pct of insert_goalkeeper_performance: the cell as pandas read it (a
\* number when the text is one, else the text), converted when it is a
\* text that holds a percent sign; a text that stays a text is refused by
\* the numeric column
MgkSavePct(text) ==
    LET val == StrStrip(text)
    IN  IF val = <<>> THEN PyNone
        ELSE IF ~FloatOf(val).raised THEN FloatOf(val)
        ELSE IF StrHas(val, "%") THEN FloatDiv100(FloatOf(StrRemove(val, "%")))
        ELSE PyRaised

\* FBrefDataExtractor._parse_minute on the text of a Minute cell
_parse_minute(value) ==
    LET minute_str == StrStrip(StrRemove(value, "+"))
        x == FloatOf(StrSplitHead(minute_str, "+"))
    IN  IF value = <<>> \/ minute_str = <<>> THEN NULL
        ELSE IF x.raised THEN NULL
        ELSE IntOf(x)

PctTexts == Texts({"8", "0", ".", "%", " "}, MaxText)
MinuteTexts == Texts({"4", "5", "2", "+", " "}, MaxText - 1)

\* a percentage cell as the three writers store it
ParsePercentage ==
    \E arg \in Inputs("percentage", {<<t>> : t \in PctTexts}), rec \in BOOLEAN :
        /\ script = "parse"
        /\ Step("percentage", arg,
                [challenges_tkl_pct |-> DefParsePct(arg[1]),
                 _parse_percentage |-> _parse_percentage(arg[1]),
                 save_percentage |-> MgkSavePct(arg[1])],
                db, rec)

\* a Minute cell as _parse_minute reads it
ParseMinute ==
    \E arg \in Inputs("_parse_minute", {<<t>> : t \in MinuteTexts}), rec \in BOOLEAN :
        /\ script = "parse"
        /\ Step("_parse_minute", arg, [minute |-> _parse_minute(arg[1])], db, rec)

InitParse == InitRun("parse", EmptyDb)

NextParse == ParsePercentage \/ ParseMinute

SpecParse == InitParse /\ [][NextParse]_vars

(***************************************************************************)
(* Two processes that run update_defensive_actions, or                     *)
(* upsert_goalkeeper_data, side by side, each on its own connection and    *)
(* for one record.  A transaction reads the committed table (READ          *)
(* COMMITTED); its own INSERT or UPDATE is stored when it commits.  The    *)
(* schema is not part of the repository: the table has a unique index on   *)
(* the natural key or it has none (workers.unique).                        *)
(***************************************************************************)
Workers == {1, 2}
ConcDefensive == script = "concurrent_defensive"
ConcTable ==
    IF ConcDefensive THEN "match_player_defensive_actions"
    ELSE "match_goalkeeper_performance"

\* the record a process writes for player p of match 1
ConcRecord(p) ==
    IF ConcDefensive
    THEN DefStoredRow(MpId(1, p),
             extract_defensive_row([player |-> p, tackles |-> 1,
                                    challenge_tackles_pct |-> ABSENT]))
    ELSE process_goalkeeper_row([player |-> p, saves |-> 1, goals_against |-> 0,
                                 shots_on_target_against |-> 1], 1)
         @@ [updated_at |-> 0]

\* WHERE match_player_id = %s, WHERE match_id = %s AND player_id = %s
ConcSameKey(r, data) ==
    IF ConcDefensive THEN r.match_player_id = data.match_player_id
    ELSE GkSameKey(r, data)

\* the UPDATE branch of the two writers
ConcUpdate(tbl, data) ==
    LET existing == {r \in Rows(tbl) : ConcSameKey(r, data)}
    IN  Update(tbl, [r \in existing |->
            IF ConcDefensive THEN SetAll(r, data, DefCols)
            ELSE [SetNonNull(r, data, GkCols) EXCEPT !.updated_at = 1]])

\* a step of process i: op records it, the stored table becomes tbl
ConcStep(name, i, w, tbl) ==
    /\ alive
    /\ workers' = [workers EXCEPT !.of[i] = w]
    /\ Observe(name, <<i>>, w, [db EXCEPT ![ConcTable] = tbl], batch, TRUE)
    /\ UNCHANGED <<script, alive, cache>>

\* SELECT id ... / SELECT 1 ...; existing_record = cursor.fetchone()
ConcCheck(i) ==
    LET w == workers.of[i]
    IN  /\ w.pc = "check"
        /\ ConcStep("check", i,
               [w EXCEPT !.pc = "write",
                         !.exists = \E r \in Rows(db[ConcTable]) :
                                        ConcSameKey(r, ConcRecord(w.player))],
               db[ConcTable])

\* the UPDATE or the INSERT.  With a unique index an INSERT waits for the
\* transaction that has inserted the key and is refused once the key is stored
ConcWrite(i) ==
    LET w == workers.of[i]
        stored == \E r \in Rows(db[ConcTable]) : ConcSameKey(r, ConcRecord(w.player))
        pending == \E j \in Workers \ {i} :
                       /\ workers.of[j].pc = "commit"
                       /\ ~workers.of[j].exists
                       /\ workers.of[j].player = w.player
    IN  /\ w.pc = "write"
        /\ (workers.unique /\ ~w.exists) => ~pending
        /\ ConcStep("write", i,
               IF workers.unique /\ ~w.exists /\ stored
               THEN [w EXCEPT !.pc = "done", !.failed = TRUE]
               ELSE [w EXCEPT !.pc = "commit"],
               db[ConcTable])

\* conn.commit()
ConcCommit(i) ==
    LET w == workers.of[i]
    IN  /\ w.pc = "commit"
        /\ ConcStep("commit", i, [w EXCEPT !.pc = "done"],
               IF w.exists THEN ConcUpdate(db[ConcTable], ConcRecord(w.player))
               ELSE Insert(db[ConcTable], ConcRecord(w.player)))

InitConcurrent ==
    \E s \in {"concurrent_defensive", "concurrent_goalkeeper"},
       unique \in BOOLEAN, players \in [Workers -> PlayerIds],
       before \in SUBSET PlayerIds :
        /\ script = s
        /\ alive = TRUE
        /\ db = [EmptyDb EXCEPT ![ConcTable] =
                    SetToBag({ConcRecord(p) : p \in before})]
        /\ committed = db
        /\ cache = NoCache
        /\ batch = <<>>
        /\ prev_db = db
        /\ prev_batch = <<>>
        /\ op = NoOp
        /\ repeat = FALSE
        /\ workers = [unique |-> unique,
                      of |-> [i \in Workers |->
                                 [pc |-> "check", player |-> players[i],
                                  exists |-> FALSE, failed |-> FALSE]]]

NextConcurrent == \E i \in Workers : ConcCheck(i) \/ ConcWrite(i) \/ ConcCommit(i)

SpecConcurrent == InitConcurrent /\ [][NextConcurrent]_vars

(***************************************************************************)
(* parse_team_stats_table as a function of the rows of the team_stats      *)
(* table                                                                   *)
(***************************************************************************)
\* the Goals cell of a row: no value (ABSENT: pd.notna is false), a text that
\* is no number (NULL: parse_stat_value returns None), or a number
TeamGoalCells == {ABSENT, NULL, 0, 1, 2}
\* rows of a table: one more than the two that are processed
MaxTeamRows == 3
TeamStatTables == UNION {[1..k -> [goals : TeamGoalCells]] : k \in 0..MaxTeamRows}

\* the derived fields of the stat_dict of row idx (0: home), given the
\* stat_dicts made before it: the home row looks for the key 'goals' in the
\* list stats, the away row for the stat_dict of the home row.  A comparison
\* with a goals value None raises
TeamDerived(idx, goals, stats) ==
    LET home == {j \in DOMAIN stats : stats[j].is_home}
        opp_goals == IF idx = 0 \/ home = {} THEN NULL
                     ELSE IF stats[CHOOSE j \in home : TRUE].goals = ABSENT THEN NULL
                     ELSE stats[CHOOSE j \in home : TRUE].goals
    IN  IF goals = ABSENT \/ opp_goals = NULL
        THEN [raised |-> FALSE, goals_against |-> ABSENT, result |-> "none"]
        ELSE IF goals = NULL
        THEN [raised |-> TRUE, goals_against |-> opp_goals, result |-> "none"]
        ELSE [raised |-> FALSE, goals_against |-> opp_goals,
              result |-> IF goals > opp_goals THEN "W"
                         ELSE IF goals < opp_goals THEN "L" ELSE "D"]

\* the loop over the rows idx.. (0-based) of the table: the first two rows
\* are processed; an exception makes the function return []
RECURSIVE TeamStatsLoop(_, _, _)
TeamStatsLoop(rows, idx, stats) ==
    IF idx >= Len(rows) \/ idx >= 2 THEN stats
    ELSE LET goals == rows[idx + 1].goals
             derived == TeamDerived(idx, goals, stats)
         IN  IF derived.raised THEN <<>>
             ELSE TeamStatsLoop(rows, idx + 1,
                      Append(stats, [is_home |-> idx = 0,
                                     goals |-> goals,
                                     goals_against |-> derived.goals_against,
                                     result |-> derived.result]))

parse_team_stats_table(rows) == TeamStatsLoop(rows, 0, <<>>)

ParseTeamStatsTable ==
    \E arg \in Inputs("parse_team_stats_table", {<<t>> : t \in TeamStatTables}),
       rec \in BOOLEAN :
        /\ script = "team_stats"
        /\ Step("parse_team_stats_table", arg,
                [stats |-> parse_team_stats_table(arg[1])], db, rec)

InitTeamStats == InitRun("team_stats", EmptyDb)

NextTeamStats == ParseTeamStatsTable

SpecTeamStats == InitTeamStats /\ [][NextTeamStats]_vars

(***************************************************************************)
(* C1: writing a record and then the identical record again                *)
(***************************************************************************)
InitC1 == InitDefense \/ InitPossession \/ InitGoalkeeper
NextC1 == NextDefense \/ NextPossession \/ NextGoalkeeper
SpecC1 == InitC1 /\ [][NextC1]_vars

\* the database without the row timestamps
Stored(d) ==
    [d EXCEPT !.match_goalkeeper_performance =
        Update(@, [r \in Rows(@) |-> [r EXCEPT !.updated_at = 0]])]

\* the rows the last recorded document wrote, each as
\* <<number of stored rows of its key, the stored rows have its values>>
C1Written ==
    CASE op.name = "update_defensive_actions" ->
           {LET mp == MatchPlayerId(db, op.arg[1], op.arg[2][i].player)
                stored == {r \in Rows(db.match_player_defensive_actions) :
                              r.match_player_id = mp}
            IN  <<Count(db.match_player_defensive_actions, stored),
                  stored = {DefStoredRow(mp, extract_defensive_row(op.arg[2][i]))}>> :
               i \in {j \in DOMAIN op.arg[2] :
                        MatchPlayerId(db, op.arg[1], op.arg[2][j].player) # NULL}}
      [] op.name = "possession.process_file" ->
           {LET stored == {r \in Rows(db.match_player_possession) :
                              r.match_player_id = rc.match_player_id}
            IN  <<Count(db.match_player_possession, stored),
                  \A r \in stored : rc.touches # NULL => r.touches = rc.touches>> :
               rc \in {op.ret.records[j] : j \in DOMAIN op.ret.records}}
      [] op.name = "process_html_file" ->
           {LET stored == {r \in Rows(db.match_goalkeeper_performance) :
                              /\ r.match_id = op.arg[1]
                              /\ r.player_id = op.arg[2][i].player}
            IN  <<Count(db.match_goalkeeper_performance, stored),
                  \A r \in stored : r.saves = op.arg[2][i].saves /\ r.updated_at = 1>> :
               i \in {j \in DOMAIN op.arg[2] :
                        /\ op.ret.match_info
                        /\ op.arg[2][j].saves # ABSENT
                        /\ ~(\E k \in DOMAIN op.ret.errors :
                                op.ret.errors[k] = op.arg[2][j].player)}}
      [] OTHER -> {}

\* C1: when update_defensive_actions, upsert_possession_data or
\* upsert_goalkeeper_data writes a record and then the identical record again,
\* the second write adds no row and changes no value (it takes the update
\* path), and each key written holds exactly one row with the record's values.
C1_RewriteIsIdempotent ==
    repeat => /\ Stored(db) = Stored(prev_db)
              /\ \A w \in C1Written : w = <<1, TRUE>>

\* a document whose rows were stored has been written a second time
C1_Witness ==
    /\ repeat
    /\ op.name = "process_html_file"
    /\ Len(op.arg[2]) = 2
    /\ Cardinality(C1Written) = 1
    /\ BagCardinality(db.match_goalkeeper_performance) = 2

(***************************************************************************)
(* C2: which fields an overwrite changes                                   *)
(***************************************************************************)
InitC2 == InitPassTypes \/ InitDefense \/ InitMisc
NextC2 == NextPassTypes \/ NextDefense \/ NextMisc
SpecC2 == InitC2 /\ [][NextC2]_vars

\* the last recorded write as a set of <<table, key, column, new value, default>>
C2Fields ==
    CASE Recorded /\ op.name = "update_defensive_actions" ->
           UNION {LET p == extract_defensive_row(op.arg[2][i])
                      mp == MatchPlayerId(db, op.arg[1], p.player_fbref_id)
                  IN  IF mp = NULL THEN {}
                      ELSE {<<"match_player_defensive_actions", mp, "tackles", p.tackles, 0>>,
                            <<"match_player_defensive_actions", mp, "challenges_tkl_pct",
                              p.challenges_tkl_pct, NULL>>} : i \in DOMAIN op.arg[2]}
      [] Recorded /\ op.name = "insert_data" ->
           {<<"match_player_pass_types", op.ret.extracted_data[i].match_player_id,
              "passes", op.ret.extracted_data[i].passes, NULL>> :
               i \in DOMAIN op.ret.extracted_data}
      [] Recorded /\ op.name = "process_batch" ->
           {<<"match_player_misc", op.ret.batch_records[i].match_player_id,
              "fouls_committed", op.ret.batch_records[i].fouls_committed, 0>> :
               i \in {j \in DOMAIN op.ret.batch_records : ~op.ret.raised}}
      [] OTHER -> {}

\* C2: PassTypesExtractor.insert_data, update_defensive_actions and
\* BatchMiscStatsExtractor.process_batch overwrite a field of a stored row only
\* when the new record has a non-default value for it: a new value of None, or
\* a 0 filled in for a missing cell, leaves the stored value of every row of
\* that key as it was.
C2_DefaultKeepsStoredValue ==
    \A f \in C2Fields :
        f[4] = f[5] =>
            \A old \in Rows(prev_db[f[1]]) :
                old.match_player_id = f[2] =>
                    \E r \in Rows(db[f[1]]) :
                        r.match_player_id = f[2] /\ r[f[3]] = old[f[3]]

(***************************************************************************)
(* C3: the stored row after a key collision                                *)
(***************************************************************************)
InitC3 == InitMissingGoalkeeper \/ InitTeamPerformance \/ InitTier2
NextC3 == NextMissingGoalkeeper \/ NextTeamPerformance \/ NextTier2
SpecC3 == InitC3 /\ [][NextC3]_vars

\* every row that was stored under the key of new now has new's value in the
\* columns new populates and its old value in the others
MergedOnCollision(before, after, key, new, cols) ==
    \A old \in Rows(before) :
        old[key] = new[key] =>
            {r \in Rows(after) : r[key] = new[key]} = {SetNonNull(old, new, cols)}

\* C3: when insert_goalkeeper_performance (key match_goalkeeper_id),
\* insert_team_performance (key fbref_match_team_id) or the Tier 2
\* bulk_insert_data (primary key) writes a record whose key is stored, the
\* stored row becomes: the new value in each column the new record populates,
\* the old value in the others.
C3_CollisionKeepsPopulated ==
    /\ (Recorded /\ op.name = "insert_goalkeeper_performance" /\ op.ret.result) =>
           MergedOnCollision(prev_db.match_goalkeeper_performance,
                             db.match_goalkeeper_performance,
                             "match_goalkeeper_id", op.ret.row,
                             {"saves", "shots_on_target_against"})
    /\ (Recorded /\ op.name = "insert_team_performance") =>
           \A i \in DOMAIN op.ret.stats :
               MergedOnCollision(prev_db.match_team_performance,
                                 db.match_team_performance,
                                 "fbref_match_team_id", op.ret.stats[i],
                                 {"touches", "fouls"})
    /\ (Recorded /\ op.name = "flush_batches") =>
           \A i \in DOMAIN op.ret.data :
               MergedOnCollision(prev_db.match_player_passing,
                                 db.match_player_passing,
                                 "match_player_passing_id", op.ret.data[i],
                                 {"total_completed"})

(***************************************************************************)
(* C4: the passing writer merges                                           *)
(***************************************************************************)
\* the passing rows of the player of the last recorded document, before and after
C4Before ==
    {r \in Rows(prev_db.match_player_passing) :
        r.match_player_id = MatchPlayerId(db, op.arg[1], op.arg[2][1].player)}
C4After ==
    {r \in Rows(db.match_player_passing) :
        r.match_player_id = MatchPlayerId(db, op.arg[1], op.arg[2][1].player)}
C4Count ==
    Count(db.match_player_passing, C4After)

\* C4: the passing writer (get_match_player_record + update_passing_record)
\* keeps one match_player_passing row per match_player: a write for a
\* match_player without a row inserts one row holding the stats, and a write
\* for a match_player with a row sets the statistic columns present in the
\* stats mapping and leaves the other statistic columns as stored; so
\* {passes: 10} followed by {passes: 12, assists: 1} leaves one row with
\* passes 12 and assists 1.
C4_PassingMerge ==
    (Recorded /\ op.name = "process_match_file" /\ Len(op.arg[2]) = 1
       /\ op.ret.players_updated = 1) =>
        LET stats == PassingStats(op.arg[2][1])
        IN  /\ C4Count = 1
            /\ \A new \in C4After : \A c \in PassingCols :
                  /\ stats[c] # ABSENT => new[c] = stats[c]
                  /\ stats[c] = ABSENT =>
                        /\ C4Before = {} => new[c] = NULL
                        /\ \A old \in C4Before : new[c] = old[c]

\* {passes: 12, assists: 1} has been written over the row that {passes: 10} left
C4_Witness ==
    /\ Recorded /\ op.name = "process_match_file" /\ Len(op.arg[2]) = 1
    /\ op.ret.players_updated = 1
    /\ PassingStats(op.arg[2][1]) = [passes |-> 12, assists |-> 1]
    /\ \E old \in C4Before : old.passes = 10 /\ old.assists = NULL
    /\ \E new \in C4After : new.passes = 12 /\ new.assists = 1
    /\ C4Count = 1

(***************************************************************************)
(* C5: process_batch and duplicates                                        *)
(***************************************************************************)
\* C5: after BatchMiscStatsExtractor.process_batch, whatever the batch (also
\* one with two records of the same match_player_id that is not yet stored),
\* match_player_misc holds at most one row per match_player_id.
C5_AtMostOneRowPerId ==
    \A r \in Rows(db.match_player_misc) :
        Count(db.match_player_misc,
              {x \in Rows(db.match_player_misc) :
                  x.match_player_id = r.match_player_id}) <= 1

(***************************************************************************)
(* C6: the lineup writer on a second extraction                            *)
(***************************************************************************)
\* the match_lineup rows of match m and player p
C6Count(d, m, p) ==
    Count(d.match_lineup,
          {r \in Rows(d.match_lineup) : r.match_id = m /\ r.player_id = p})

\* C6: when a document's lineup entries are extracted and written and the same
\* document is then extracted and written again, the second write adds no
\* match_lineup row, and every (match_id, player_id) has at most one row.
C6_SecondWriteAddsNoRows ==
    (repeat /\ op.name = "insert_lineups")
        => /\ BagCardinality(db.match_lineup) = BagCardinality(prev_db.match_lineup)
           /\ \A m \in MatchIds, p \in PlayerIds : C6Count(db, m, p) <= 1

(***************************************************************************)
(* C7: the records handed to the writer have a match_player id             *)
(***************************************************************************)
InitC7 == InitPossession \/ InitTier2 \/ InitMisc
NextC7 == NextPossession \/ NextTier2 \/ NextMisc
SpecC7 == InitC7 /\ [][NextC7]_vars

\* every record of recs has a match_player_id that is the id of a stored match_player
C7Resolved(d, recs) ==
    \A i \in DOMAIN recs :
        /\ recs[i].match_player_id # NULL
        /\ \E r \in d.match_player : r.id = recs[i].match_player_id

\* the rows of the recorded document whose match_player the script can resolve
\* or create, seen from the database before the operation
C7Resolvable ==
    {i \in DOMAIN op.arg[2] :
        \/ MatchPlayerId(prev_db, op.arg[1], op.arg[2][i].player) # NULL
        \/ /\ op.name = "possession.process_file"
           /\ op.arg[1] \in prev_db.match
        \/ /\ op.name = "tier2.process_file"
           /\ op.arg[1] \in prev_db.match
           /\ \E r \in prev_db.player : r.player_id = op.arg[2][i].player}

\* the record list the recorded operation handed to its writer
C7Records ==
    CASE op.name = "possession.process_file" -> op.ret.records
      [] op.name = "process_batch" -> op.ret.batch_records
      [] OTHER -> op.ret.data

\* C7: in the possession, tier-2 and misc extractors every record handed to the
\* writer (and every buffered record) carries a non-null match_player_id that
\* is the id of a stored match_player row; a row whose match_player is not
\* resolved yields no record, and no stored row has a null match_player_id.
C7_RecordsCarryMatchPlayerId ==
    /\ C7Resolved(db, batch)
    /\ \A r \in Rows(db.match_player_possession) \cup Rows(db.match_player_passing)
                  \cup Rows(db.match_player_misc) : r.match_player_id # NULL
    /\ Recorded => C7Resolved(db, C7Records)
    /\ (Recorded /\ op.name # "flush_batches")
          => Len(C7Records) = Cardinality(C7Resolvable)

\* a tier-2 document of a stored match with one row resolved and one row left out
C7_Witness ==
    /\ Recorded
    /\ op.name = "tier2.process_file"
    /\ Len(op.ret.data) > 0
    /\ Len(op.ret.data) < Len(op.arg[2])
    /\ C7Resolved(db, op.ret.data)

(***************************************************************************)
(* C8: a row of a player without a match_player                            *)
(***************************************************************************)
InitC8 == InitPossession \/ InitMisc \/ InitDefense
NextC8 == NextPossession \/ NextMisc \/ NextDefense
SpecC8 == InitC8 /\ [][NextC8]_vars

\* the statistics table the recorded operation writes
C8Table ==
    CASE op.name = "possession.process_file" -> db.match_player_possession
      [] op.name = "process_batch" -> db.match_player_misc
      [] OTHER -> db.match_player_defensive_actions

\* C8: in the possession, misc and defensive-actions extractors, when a row of
\* a document of a stored match names a player without a match_player row for
\* the match, a match_player row is created for the player and the row's
\* statistics are stored under it.
C8_OrphanRowIsPersisted ==
    (Recorded /\ op.arg[1] \in prev_db.match)
        => \A i \in DOMAIN op.arg[2] :
              LET p == op.arg[2][i].player
                  mp == MatchPlayerId(db, op.arg[1], p)
              IN  MatchPlayerId(prev_db, op.arg[1], p) = NULL
                    => /\ mp # NULL
                       /\ \E r \in Rows(C8Table) : r.match_player_id = mp

(***************************************************************************)
(* C9: a document of a match the database does not hold                    *)
(***************************************************************************)
InitC9 == InitPossession \/ InitTier1 \/ InitTier2
NextC9 == NextPossession \/ NextTier1 \/ NextTier2
SpecC9 == InitC9 /\ [][NextC9]_vars

\* the last recorded operation processed a document whose match is not stored
C9UnknownMatch ==
    /\ Recorded
    /\ op.name \in {"possession.process_file", "tier1.process_file",
                    "tier2.process_file"}
    /\ op.arg[1] \notin prev_db.match

\* C9: no extractor adds a match: the match table stays as it was, and a
\* document whose match is not stored leaves every table and the buffer as
\* they were, and the script goes on to the next document.
C9_UnknownMatchWritesNothing ==
    /\ db.match = StoredMatches
    /\ C9UnknownMatch => (db = prev_db /\ batch = prev_batch /\ alive)

\* a tier-2 document of an unknown match that lists a stored player was
\* processed after an earlier document had been written
C9_Witness ==
    /\ C9UnknownMatch
    /\ op.name = "tier2.process_file"
    /\ \E i \in DOMAIN op.arg[2] :
          \E r \in db.player : r.player_id = op.arg[2][i].player
    /\ batch # <<>>
    /\ db = prev_db
    /\ alive

(***************************************************************************)
(* C10: get_player_uuid on every name and FBref id                         *)
(***************************************************************************)
\* C10: for every player_name and player_fbref_id insert_goalkeeper_performance
\* passes to it, get_player_uuid returns a player id that is not None and
\* raises no exception.
C10_GetPlayerUuidNeverFails ==
    (Recorded /\ op.name = "insert_goalkeeper_performance")
        => /\ ~op.ret.get_player_uuid_raised
           /\ op.ret.player_id # NULL

(***************************************************************************)
(* C11: the order in which get_player_uuid resolves a player               *)
(***************************************************************************)
\* the stored players a lookup of the recorded call matches, before the call
C11ById ==
    {r \in prev_db.player : op.arg[2].player_fbref_id # ABSENT
                              /\ r.player_id = op.arg[2].player_fbref_id}
C11Exact ==
    {r \in prev_db.player : op.arg[2].player_name # NULL
                              /\ r.player_name = op.arg[2].player_name}
C11NoCase ==
    {r \in prev_db.player : op.arg[2].player_name # NULL
                              /\ r.player_name \notin {NULL, NAN}
                              /\ Lower(r.player_name) = Lower(op.arg[2].player_name)}
\* the recorded call returned a player id
C11Returned ==
    /\ Recorded
    /\ op.name = "insert_goalkeeper_performance"
    /\ ~op.ret.get_player_uuid_raised

\* C11: whenever get_player_uuid returns, the id is that of the row with the
\* given FBref id if one is stored; else that of a row with exactly the name;
\* else that of a row with the name ignoring case; and only when all three
\* lookups find nothing a player row is created and reported, with the FBref
\* id as its id when one is given and the hash of the name otherwise.
C11_ResolutionOrder ==
    C11Returned =>
        LET id == op.ret.player_id
            key == IF op.arg[2].player_fbref_id # ABSENT
                   THEN op.arg[2].player_fbref_id
                   ELSE Md5Name(op.arg[2].player_name)
            kept == ~op.ret.created /\ db.player = prev_db.player
        IN  IF C11ById # {} THEN kept /\ id = op.arg[2].player_fbref_id
            ELSE IF C11Exact # {} THEN kept /\ id \in {r.player_id : r \in C11Exact}
            ELSE IF C11NoCase # {} THEN kept /\ id \in {r.player_id : r \in C11NoCase}
            ELSE /\ op.ret.created
                 /\ id = key
                 /\ db.player = prev_db.player
                       \cup {[player_id |-> key, player_name |-> op.arg[2].player_name]}

\* the FBref id and the name match different stored players and the id wins
C11_Witness ==
    /\ C11Returned
    /\ C11ById # {}
    /\ C11NoCase # {}
    /\ C11ById \cap C11NoCase = {}
    /\ op.ret.player_id = op.arg[2].player_fbref_id

(***************************************************************************)
(* C12: a failing write of one document's records does not abort the run   *)
(***************************************************************************)
\* C12: when insert_shots_to_db raises on the shots of one document, the
\* driver loop is still running afterwards, so that the documents that
\* remain are processed
C12_FailedWriteKeepsRunGoing ==
    (Recorded /\ op.name = "insert_shots_to_db" /\ op.ret.raised
       /\ op.ret.remaining # {})
        => alive

(***************************************************************************)
(* C13: a batch that fails leaves the rows of the earlier batches stored   *)
(***************************************************************************)
InitC13 == InitTier2 \/ InitMisc \/ InitPassTypes
NextC13 == NextTier2 \/ NextMisc \/ NextPassTypes
SpecC13 == InitC13 /\ [][NextC13]_vars

\* the last operation was a batch write that the database refused
C13Failed ==
    /\ Recorded
    /\ \/ op.name \in {"tier2.process_file", "flush_batches"} /\ op.ret.failed
       \/ op.name \in {"process_batch", "insert_data"} /\ op.ret.raised
\* the table the batched writer of the script writes
C13Table ==
    IF script = "tier2" THEN "match_player_passing"
    ELSE IF script = "misc_stats" THEN "match_player_misc"
    ELSE "match_player_pass_types"

\* C13: when a batch of a batched writer fails, every row the earlier batches
\* wrote is stored afterwards, in the connection's view and in the committed
\* database
C13_EarlierBatchesSurvive ==
    C13Failed => /\ prev_db[C13Table] \sqsubseteq db[C13Table]
                 /\ prev_db[C13Table] \sqsubseteq committed[C13Table]

\* a batch failed after an earlier batch had written rows
C13_Witness ==
    /\ C13Failed
    /\ prev_db[C13Table] # EmptyBag
    /\ db[C13Table] = prev_db[C13Table]

(***************************************************************************)
(* C14: extraction commits nothing before the write step                   *)
(***************************************************************************)
\* the database as process_possession_data leaves it for the recorded
\* document, before upsert_possession_data is called
C14Extracted ==
    process_possession_data(prev_db, PossGetMatchInfo(prev_db, op.arg[1]), op.arg[2], 1,
        [ok |-> TRUE, records |-> <<>>, missing_players |-> <<>>]).db

\* C14: when process_file has extracted the records of a document and has
\* not yet written them, the database is as it was before the document
C14_ExtractionLeavesDatabase ==
    (Recorded /\ op.name = "possession.process_file" /\ op.ret.ok)
        => C14Extracted = prev_db

(***************************************************************************)
(* C15: a validation issue is counted and does not block the upsert        *)
(***************************************************************************)
\* the rows of the recorded document whose shot-stopping numbers disagree
C15Violating ==
    {i \in DOMAIN op.arg[2] :
        /\ op.arg[2][i].saves # ABSENT
        /\ op.arg[2][i].saves + op.arg[2][i].goals_against
             # op.arg[2][i].shots_on_target_against}
\* the rows of the recorded document whose team_season_id was resolved
C15Resolved ==
    {i \in DOMAIN op.arg[2] :
        \A k \in DOMAIN op.ret.errors : op.ret.errors[k] # op.arg[2][i].player}

\* C15: after process_html_file on a document of a known match, every record
\* with a validation issue whose team_season_id is resolved is stored with
\* its values, and validation_errors counts each record with an issue once
C15_ViolationIsStoredAndCounted ==
    (Recorded /\ op.name = "process_html_file" /\ op.ret.match_info)
        => /\ op.ret.validation_errors = Cardinality(C15Violating)
           /\ \A i \in C15Violating \cap C15Resolved :
                \E r \in Rows(db.match_goalkeeper_performance) :
                    /\ r.match_id = op.arg[1]
                    /\ r.player_id = op.arg[2][i].player
                    /\ r.saves = op.arg[2][i].saves
                    /\ r.goals_against = op.arg[2][i].goals_against
                    /\ r.shots_on_target_against = op.arg[2][i].shots_on_target_against

\* a record with a validation issue was counted and stored
C15_Witness ==
    /\ Recorded /\ op.name = "process_html_file" /\ op.ret.match_info
    /\ C15Violating \cap C15Resolved # {}
    /\ op.ret.validation_errors >= 1
    /\ op.ret.records_updated >= 1

(***************************************************************************)
(* C16: when validate_goalkeeper_data reports the shot-stopping issue      *)
(***************************************************************************)
\* the row SoTA=5, GA=1, Saves=4, Save%=80.0, without other cells
C16Row ==
    [saves |-> 4, goals_against |-> 1, shots_on_target_against |-> 5,
     save_percentage |-> 80, launched_completed |-> ABSENT,
     launched_attempted |-> ABSENT, crosses_stopped |-> ABSENT, crosses_opposed |-> 0]

\* C16: the shot-stopping issue is reported exactly when saves, goals_against
\* and shots_on_target_against are all non-null and
\* |saves + goals_against - shots_on_target_against| > 0.01; the row SoTA=5,
\* GA=1, Saves=4, Save%=80.0 is cleaned to 5, 1, 4, 80 and is valid with an
\* empty issue list
C16_ShotStoppingIssue ==
    (Recorded /\ op.name = "validate_goalkeeper_data")
        => LET d == op.ret.data
           IN  /\ (\E k \in DOMAIN op.ret.issues : op.ret.issues[k] = "shot_stopping")
                    <=> /\ d.saves # NULL
                        /\ d.goals_against # NULL
                        /\ d.shots_on_target_against # NULL
                        /\ \/ 100 * (d.saves + d.goals_against
                                       - d.shots_on_target_against) > 1
                           \/ 100 * (d.shots_on_target_against
                                       - d.saves - d.goals_against) > 1
               /\ op.arg[1] = C16Row
                    => /\ d.shots_on_target_against = 5 /\ d.goals_against = 1
                       /\ d.saves = 4 /\ d.save_percentage = 80
                       /\ op.ret.is_valid
                       /\ op.ret.issues = <<>>

\* the row of the claim has been validated
C16_Witness ==
    /\ Recorded /\ op.name = "validate_goalkeeper_data"
    /\ op.arg[1] = C16Row
    /\ op.ret.is_valid

(***************************************************************************)
(* C17: a goalkeeper of a keeper table and a summary table counts once     *)
(***************************************************************************)
\* the recorded document lists a goalkeeper in a keeper_stats table and in a
\* stats_*_summary table
C17ListedTwice ==
    /\ Recorded /\ op.name = "missing_goalkeeper.main"
    /\ \E i, j \in DOMAIN op.arg[2] :
          /\ op.arg[2][i].kind = "keeper" /\ op.arg[2][i].gks # <<>>
          /\ op.arg[2][j].kind = "summary" /\ op.arg[2][j].gks # <<>>

\* C17: for a goalkeeper listed in a keeper table and in a summary table of
\* one document, the missing-goalkeeper extractor stores exactly one
\* match_goalkeeper_performance row for the (match, player) and counts one
\* successful insertion
C17_GoalkeeperCountedOnce ==
    C17ListedTwice
        => /\ Count(db.match_goalkeeper_performance,
                    {r \in Rows(db.match_goalkeeper_performance) :
                        r.match_id = op.arg[1] /\ r.player_id = GkPlayer}) = 1
           /\ op.ret.successful = 1

(***************************************************************************)
(* C18: a summary table whose caption names no team is assigned by place   *)
(***************************************************************************)
\* the recorded page, and the entries of its summary table t start after
\* those of the tables before it
C18Page == op.arg[1]
C18Offset(t) == IF t = 1 THEN 0 ELSE Len(C18Page.tables[1].rows)
\* summary table t of the recorded page has no caption, or a caption in
\* which identify_team_from_caption finds no team
C18NoMatch(t) ==
    \/ C18Page.tables[t].caption = <<>>
    \/ identify_team_from_caption(C18Page.tables[t].caption[1],
                                  C18Page.home_team, <<13>>) = "none"

\* C18: the entries of a summary table without caption match carry the home
\* team when the table is the first of the page and the away team otherwise,
\* and the extraction returns its entries (one per summary row)
C18_FallbackByTableOrder ==
    (Recorded /\ op.name = "extract_lineup_from_html")
        => \A t \in DOMAIN C18Page.tables :
             \A i \in DOMAIN C18Page.tables[t].rows :
               /\ C18Offset(t) + i \in DOMAIN op.ret.lineups
               /\ C18NoMatch(t)
                    => op.ret.lineups[C18Offset(t) + i].team_season_id
                         = (IF t = 1 THEN "home" ELSE "away")

\* a page with two summary tables, neither with a caption match: the first
\* without home name and team word, the second without caption
C18_Witness ==
    /\ Recorded /\ op.name = "extract_lineup_from_html"
    /\ Len(C18Page.tables) = 2
    /\ C18Page.home_team = <<>>
    /\ C18Page.tables[1].caption = <<<<4>>>>
    /\ C18Page.tables[2].caption = <<>>
    /\ Len(op.ret.lineups) >= 2
    /\ op.ret.lineups[1].team_season_id = "home"
    /\ op.ret.lineups[2].team_season_id = "away"

(***************************************************************************)
(* C19: an entry assigned by table order is told apart from a named one    *)
(***************************************************************************)
\* the recorded page with the home team's name as the caption of its first
\* summary table
C19Captioned == [C18Page EXCEPT !.tables[1].caption = <<C18Page.home_team>>]

\* an entry without its lineup_id (a random uuid4)
C19Fields(entry) == [f \in DOMAIN entry \ {"lineup_id"} |-> entry[f]]

\* C19: an entry of a first summary table that was assigned by its place
\* differs, in a field other than its random lineup_id, from the entry the
\* same row yields when the caption names the home team
C19_FallbackIsFlagged ==
    (/\ Recorded /\ op.name = "extract_lineup_from_html"
     /\ C18Page.home_team # <<>>
     /\ Len(C18Page.tables) >= 1
     /\ C18Page.tables[1].rows # <<>>
     /\ C18NoMatch(1))
        => C19Fields(extract_lineup_from_html(db.match_lineup,
               LineupMatchInfo(1, C18Page.home_team), C19Captioned)[1])
             # C19Fields(op.ret.lineups[1])

(***************************************************************************)
(* C20: the starter rule for a player outside the first 11                 *)
(***************************************************************************)
\* C20: the player at place 15 of a summary table with 75 minutes is a
\* starter, and so is every player after place 11 who played 60 minutes or more
C20_LateRowWithMinutesIsStarter ==
    (Recorded /\ op.name = "is_starter" /\ op.arg[1] > 11 /\ op.arg[2] >= 60)
        => op.ret.is_starter

(***************************************************************************)
(* C21: the starter rule for zero minutes and for the first 11 rows        *)
(***************************************************************************)
\* C21: at every place of the table a player whose minutes are zero (a
\* missing, empty or unparseable minutes cell included) is not a starter,
\* and a player among the first 11 rows with non-zero minutes is a starter
C21_ZeroMinutesAndFirstEleven ==
    (Recorded /\ op.name = "starter_of_cell")
        => /\ op.arg[2] \in {ABSENT, NULL, NAN} => op.ret.minutes = 0
           /\ op.ret.minutes = 0 => ~op.ret.is_starter
           /\ (op.arg[1] <= 11 /\ op.ret.minutes # 0) => op.ret.is_starter

\* the third row of a table has an unparseable minutes cell and is no starter
C21_Witness ==
    /\ Recorded /\ op.name = "starter_of_cell"
    /\ op.arg = <<3, NAN>>
    /\ ~op.ret.is_starter

(***************************************************************************)
(* C22: a percentage is stored as the number in front of the percent sign  *)
(***************************************************************************)
\* the text is a number followed by a percent sign
C22Number(text) == SubSeq(text, 1, Len(text) - 1)
C22IsPercent(text) ==
    /\ text # <<>>
    /\ text[Len(text)] = "%"
    /\ ~FloatOf(C22Number(text)).raised
    /\ ~StrHas(C22Number(text), " ")

\* C22: of a cell that holds a number and a percent sign, the defensive, the
\* tier-1 and the missing-goalkeeper writers store that number, not divided
\* by 100
C22_PercentageIsPlainNumber ==
    (Recorded /\ op.name = "percentage" /\ C22IsPercent(op.arg[1]))
        => /\ op.ret.challenges_tkl_pct = FloatOf(C22Number(op.arg[1]))
           /\ op.ret._parse_percentage = FloatOf(C22Number(op.arg[1]))
           /\ op.ret.save_percentage = FloatOf(C22Number(op.arg[1]))

(***************************************************************************)
(* C23: the match_player cache of the tier-2 extractor                     *)
(***************************************************************************)
\* every cached entry is a committed match_player row of a stored player,
\* and no key is cached twice
C23Persisted ==
    /\ cache.match_players \subseteq committed.match_player
    /\ \A r \in cache.match_players : \E p \in db.player : p.player_id = r.player_id
    /\ \A r, q \in cache.match_players :
           (r.match_id = q.match_id /\ r.player_id = q.player_id) => r = q

\* C23: the cache of match_player ids only grows, an entry is never removed
\* or changed, every cached key has a committed match_player row, and a
\* creation that failed has added no entry
C23_CacheOnlyGrows ==
    /\ []C23Persisted
    /\ [][cache.match_players \subseteq cache'.match_players]_vars

\* a document named a player the player table holds and one it does not: the
\* first was created and cached, the second was not
C23_Witness ==
    /\ Recorded /\ op.name = "tier2.process_file"
    /\ op.arg[1] \in cache.matches
    /\ \E r \in cache.match_players : r \notin prev_db.match_player
    /\ \E i \in DOMAIN op.arg[2] :
           /\ \A p \in db.player : p.player_id # op.arg[2][i].player
           /\ \A r \in cache.match_players : r.player_id # op.arg[2][i].player

(***************************************************************************)
(* C24: two processes that write the same subject side by side             *)
(***************************************************************************)
\* C24: when both processes have finished, the table holds at most one row
\* for every natural key, whatever the order of their checks and writes
C24_NoDuplicateInsertRace ==
    (script \in {"concurrent_defensive", "concurrent_goalkeeper"}
       /\ \A i \in Workers : workers.of[i].pc = "done")
        => \A p \in PlayerIds :
               Count(db[ConcTable],
                     {r \in Rows(db[ConcTable]) : ConcSameKey(r, ConcRecord(p))}) <= 1

(***************************************************************************)
(* C25: _parse_minute on a stoppage-time minute                            *)
(***************************************************************************)
\* the text is made of digits only, and not empty
C25IsNumber(text) ==
    text # <<>> /\ \A i \in 1..Len(text) : text[i] \in TextDigits

\* C25: the text B+A of two numbers is parsed to B, and the text B to B
C25_StoppageTimeGivesMainMinute ==
    (Recorded /\ op.name = "_parse_minute")
        => /\ C25IsNumber(op.arg[1]) => op.ret.minute = StrDigits(op.arg[1], 0)
           /\ \A k \in 1..Len(op.arg[1]) :
                  (/\ op.arg[1][k] = "+"
                   /\ C25IsNumber(SubSeq(op.arg[1], 1, k - 1))
                   /\ C25IsNumber(SubSeq(op.arg[1], k + 1, Len(op.arg[1]))))
                  => op.ret.minute = StrDigits(SubSeq(op.arg[1], 1, k - 1), 0)

(***************************************************************************)
(* C26: players_updated and the passing writes that are stored             *)
(***************************************************************************)
\* the rows of the last recorded document whose statistics the stored
\* passing row of their match_player holds
C26Stored ==
    {i \in DOMAIN op.arg[2] :
        \E r \in Rows(db.match_player_passing) :
            /\ r.match_player_id # NULL
            /\ r.match_player_id = MatchPlayerId(db, op.arg[1], op.arg[2][i].player)
            /\ \E c \in PassingCols : op.arg[2][i][c] # ABSENT
            /\ \A c \in PassingCols : op.arg[2][i][c] # ABSENT => r[c] = op.arg[2][i][c]}

\* C26: after process_match_file, players_updated is the number of players
\* of the document whose passing write is stored, whichever writes failed
C26_CountedWritesAreStored ==
    (Recorded /\ op.name = "process_match_file")
        => op.ret.players_updated = Cardinality(C26Stored)

(***************************************************************************)
(* C27: the list a goalkeeper of a table is put in                         *)
(***************************************************************************)
\* C27: after extract_goalkeepers_from_html, whatever the order and the kinds
\* of the tables, the goalkeepers of the tables of the home team's code are
\* the home goalkeepers and all the others the away goalkeepers
C27_ListFollowsTeamCode ==
    (Recorded /\ op.name = "missing_goalkeeper.main")
        => LET result == op.ret.gk_data
           IN  /\ \A k \in DOMAIN result.home_goalkeepers :
                      result.home_goalkeepers[k].team_fbref_id = result.teams.home
               /\ \A k \in DOMAIN result.away_goalkeepers :
                      result.away_goalkeepers[k].team_fbref_id # result.teams.home

(***************************************************************************)
(* C28: goals_against and result of the two team records                   *)
(***************************************************************************)
\* the recorded table has a goals number in its home row and in its away row
C28BothGoals ==
    /\ Recorded /\ op.name = "parse_team_stats_table"
    /\ Len(op.arg[1]) >= 2
    /\ \A i \in 1..2 : op.arg[1][i].goals \notin {ABSENT, NULL}

\* C28: when both rows have a goals value, both records carry the goals of
\* the opponent in goals_against and a result W, D or L that compares the
\* two goal counts, so the home result is W exactly when the away result is
\* L, and D exactly when the away result is D
C28_BothRecordsCarryResult ==
    C28BothGoals
        => LET stats == op.ret.stats
           IN  /\ Len(stats) = 2
               /\ stats[1].goals_against = stats[2].goals
               /\ stats[2].goals_against = stats[1].goals
               /\ \A i \in 1..2 :
                      stats[i].result =
                          (IF stats[i].goals > stats[3 - i].goals THEN "W"
                           ELSE IF stats[i].goals < stats[3 - i].goals THEN "L"
                           ELSE "D")
               /\ stats[1].result = "W" <=> stats[2].result = "L"
               /\ stats[1].result = "D" <=> stats[2].result = "D"


(***************************************************************************)
(* C29: the batching drivers hand every extracted record to the bulk       *)
(* writer exactly once                                                     *)
(***************************************************************************)
InitC29 == InitTier2 \/ InitMiscBatches
NextC29 == Tier2ProcessFile \/ flush_batches \/ MiscProcessOneFile
SpecC29 == InitC29 /\ [][NextC29]_vars

\* the last operation was a recorded step of a batching driver
C29Step ==
    /\ Recorded
    /\ op.name \in {"tier2.process_file", "flush_batches", "misc.process_all_files"}
\* the records the step extracted from its document (flush_batches reads none)
C29Extracted == IF op.name = "flush_batches" THEN <<>> ELSE op.ret.data

\* C29: in every step of a batching driver the records that were pending
\* before it, followed by the records it extracted, are exactly the batch it
\* handed to the bulk writer followed by the records still pending, in the
\* same order and with the same multiplicity, so over a run the submitted
\* batches and the pending buffer partition the extracted records; and once
\* the driver has ended the pending buffer is empty
C29_EveryRecordInOneBatch ==
    /\ C29Step => prev_batch \o C29Extracted = op.ret.submitted \o batch
    /\ (script \in {"tier2", "misc_batches"} /\ ~alive) => batch = <<>>

\* a document filled a buffer that held records of an earlier document: the
\* batch that was submitted holds the records of both and nothing is pending
C29_Witness ==
    /\ C29Step
    /\ op.name = "tier2.process_file"
    /\ prev_batch # <<>>
    /\ op.ret.data # <<>>
    /\ op.ret.submitted = prev_batch \o op.ret.data
    /\ batch = <<>>


(***************************************************************************)
(* C30: every distinct shot of a document is stored                        *)
(***************************************************************************)
\* a document of a known match was processed and none of its shots had a
\* row with its shot_id before
C30Fresh ==
    /\ Recorded
    /\ op.name = "tier1.process_file"
    /\ op.ret.known
    /\ \A i \in DOMAIN op.ret.shot_data :
          \A r \in Rows(prev_db.match_shot) :
             r.shot_id # <<op.ret.shot_data[i].match_hex_id,
                            op.ret.shot_data[i].player_hex_id,
                            op.ret.shot_data[i].minute>>

\* the different shots extracted from the recorded document
C30Shots == {op.ret.shot_data[i] : i \in DOMAIN op.ret.shot_data}

\* C30: insert_shot_records adds one match_shot row for every different shot
\* extracted from the document
C30_EveryShotStored ==
    C30Fresh => BagCardinality(db.match_shot)
                   = BagCardinality(prev_db.match_shot) + Cardinality(C30Shots)

====
